---- MODULE Spec2Model ----
(***************************************************************************)
(* Market-Pulse processing pipeline: output accumulator, ranking engine,   *)
(* rule engine, rule store with audit/revert, and the cron orchestrator.   *)
(* Each component has its own specification over the shared variables.     *)
(***************************************************************************)
EXTENDS Integers, Sequences, FiniteSets, TLC

VARIABLES
    \* ---- output accumulator (services/output_service.py)
    stored,        \* rows of Processed_Colors_Output.xlsx, oldest first
    nextRow,       \* identity of the next appended row
    appendLog,     \* one entry per append_processed_colors call
    \* ---- ranking engine (services/ranking_engine.py)
    raw_colors,    \* input of run_colors
    rankResult,    \* output of run_colors
    rankPc,        \* "input" | "done"
    \* ---- rule engine (rules_service.py)
    evRow,         \* row given to evaluate_rule
    evRule,        \* rule given to evaluate_rule
    evResult,      \* value returned by evaluate_rule
    evPc,          \* "input" | "done"
    \* ---- rule store and audit log (rules_service.py, logging_service.py)
    rules,         \* storage key "rules": list of rule dicts
    unified_logs,  \* unified_logs.json "logs", most recent first
    next_id,       \* unified_logs.json "next_id"
    lastOp,        \* last rule-store operation: name, outcome, rules before it
    \* ---- apply_rules (rules_service.py)
    applyData,     \* data given to apply_rules
    applyIds,      \* specific_rule_ids: Optional[set of ids]
    rules_to_apply, \* the local rules_to_apply of the last call
    applyResult,   \* dict returned by apply_rules
    applyPc,       \* "input" | "done"
    \* ---- cron orchestrator (cron_service.py, manual_upload_service.py)
    jobs,          \* storage key "cron_jobs": list of job dicts
    cronRegs,      \* scheduler registrations cron_job_<id>, by job id
    oneShots,      \* scheduler one-shot jobs manual_trigger_<id>_<ts>
    restoreThreads, \* restore_schedule threads started by override triggers
    cronOp,        \* outcome of the last job handler call
    runs,          \* run_automation_task invocations, by start order
    buffer,        \* storage key "manual_uploads_buffer": list of entries
    upload_history, \* storage key "manual_upload_history", most recent first
    cron_logs,     \* storage key "cron_logs", most recent first
    \* ---- handler calls in flight, for the handlers followed statement by
    \* ---- statement
    calls          \* one record per call: handler, arguments, locals, position

outVars  == <<stored, nextRow, appendLog>>
rankVars == <<raw_colors, rankResult, rankPc>>
evalVars == <<evRow, evRule, evResult, evPc>>
storeVars == <<rules, unified_logs, next_id, lastOp>>
applyVars == <<applyData, applyIds, rules_to_apply, applyResult, applyPc>>
callVars == <<calls>>
cronVars == <<jobs, cronRegs, oneShots, restoreThreads, cronOp, runs, buffer,
              upload_history, cron_logs>>
vars     == <<stored, nextRow, appendLog, raw_colors, rankResult, rankPc,
              jobs, cronRegs, oneShots, restoreThreads, cronOp, runs, buffer,
              upload_history, cron_logs,
              evRow, evRule, evResult, evPc,
              rules, unified_logs, next_id, lastOp,
              applyData, applyIds, rules_to_apply, applyResult, applyPc, calls>>

\* Optional[x]: None is the empty sequence, a value x is <<x>>
None == <<>>
Some(x) == <<x>>

(***************************************************************************)
(* Sequence helpers                                                        *)
(***************************************************************************)
\* pandas DataFrame.tail(n): the last n rows, in order
Tail_n(s, n) == IF Len(s) <= n THEN s ELSE SubSeq(s, Len(s) - n + 1, Len(s))

IsSuffix(s, t) == /\ Len(s) <= Len(t)
                  /\ s = SubSeq(t, Len(t) - Len(s) + 1, Len(t))

RECURSIVE SumSeq(_)
SumSeq(s) == IF s = <<>> THEN 0 ELSE Head(s) + SumSeq(Tail(s))

(***************************************************************************)
(* Output accumulator                                                      *)
(***************************************************************************)
R_keep == 100
R_max  == 150

MaxAppends == 3
BatchSizes == {0, 1, 5, 6, 11, 49, 149, 151}

OutInit == /\ stored = <<>>
           /\ nextRow = 1
           /\ appendLog = <<>>

\* variant that keeps the oldest rows instead of the newest
append_combined_head(existing, readOk, new) ==
    LET existing_df == IF readOk THEN (IF Len(existing) > R_keep
                                        THEN SubSeq(existing, 1, R_keep)
                                        ELSE existing)
                                 ELSE <<>>
        combined_df == existing_df \o new
    IN IF Len(combined_df) > R_max THEN SubSeq(combined_df, 1, R_max) ELSE combined_df

\* variant without the pre-append trim to R_keep
append_combined_nokeep(existing, readOk, new) ==
    LET existing_df == IF readOk THEN existing ELSE <<>>
        combined_df == existing_df \o new
    IN IF Len(combined_df) > R_max THEN Tail_n(combined_df, R_max) ELSE combined_df

\* the combined frame written back by append_processed_colors
append_combined(existing, readOk, new) ==
    LET existing_df == IF readOk THEN (IF Len(existing) > R_keep
                                        THEN Tail_n(existing, R_keep)
                                        ELSE existing)
                                 ELSE <<>>
        combined_df == existing_df \o new
    IN IF Len(combined_df) > R_max THEN Tail_n(combined_df, R_max) ELSE combined_df

\* the effect of OutputService.append_processed_colors on the output file:
\* n new rows; readOk is whether pd.read_excel of the existing file succeeds;
\* src names the caller's batch
AppendRows(n, readOk, src) ==
    LET new == [i \in 1..n |-> nextRow + i - 1]
    IN /\ stored' = IF n = 0 THEN stored ELSE append_combined(stored, readOk, new)
       /\ nextRow' = nextRow + n
       /\ appendLog' = Append(appendLog,
              [before |-> stored, new |-> new, readOk |-> readOk, src |-> src])

\* OutputService.append_processed_colors(colors) called on its own
append_processed_colors(n, readOk) ==
    /\ Len(appendLog) < MaxAppends
    /\ AppendRows(n, readOk, "direct")
    /\ UNCHANGED <<rankVars, evalVars, storeVars, applyVars, cronVars, callVars>>

AppendReadable   == \E n \in BatchSizes : append_processed_colors(n, TRUE)
AppendUnreadable == \E n \in BatchSizes \ {0} : append_processed_colors(n, FALSE)

OutNext == AppendReadable \/ AppendUnreadable

(***************************************************************************)
(* Ranking engine                                                          *)
(***************************************************************************)
MaxColors == 3
Cusips == {"A", "B"}
Dates  == {1, 2}
Ranks  == {1, 2}
Prices == {0, 50, 90}
\* float('inf') in the sort key
Infinity == 1000000

\* ColorRaw, restricted to the fields the engine reads; message_id is the
\* position of the record in the input
ColorRaw(i, c, d, r, p) ==
    [message_id |-> i, cusip |-> c, date |-> d, rank |-> r, px |-> p]

RawRecords(i) == {ColorRaw(i, c, d, r, p) :
                     c \in Cusips, d \in Dates, r \in Ranks, p \in Prices}

\* the sort key of _process_group: (-date.timestamp(), rank, px or inf)
SortKey(c) == <<0 - c.date, c.rank, IF c.px # 0 THEN c.px ELSE Infinity>>

\* Python tuple comparison a < b
KeyLess(a, b) ==
    \/ a[1] < b[1]
    \/ a[1] = b[1] /\ a[2] < b[2]
    \/ a[1] = b[1] /\ a[2] = b[2] /\ a[3] < b[3]

\* sorted(): stable, an element goes after every element whose key is <= its own
RECURSIVE InsertStable(_, _)
InsertStable(s, x) ==
    IF s = <<>> THEN <<x>>
    ELSE IF KeyLess(SortKey(x), SortKey(Head(s))) THEN <<x>> \o s
    ELSE <<Head(s)>> \o InsertStable(Tail(s), x)

RECURSIVE sorted(_)
sorted(s) == IF s = <<>> THEN <<>>
             ELSE InsertStable(sorted(SubSeq(s, 1, Len(s) - 1)), s[Len(s)])

_create_parent(color, children_count) ==
    [message_id |-> color.message_id, cusip |-> color.cusip, date |-> color.date,
     rank |-> color.rank, px |-> color.px,
     is_parent |-> TRUE, parent_message_id |-> None,
     children_count |-> children_count]

_create_child(color, parent_id) ==
    [message_id |-> color.message_id, cusip |-> color.cusip, date |-> color.date,
     rank |-> color.rank, px |-> color.px,
     is_parent |-> FALSE, parent_message_id |-> Some(parent_id),
     children_count |-> 0]

\* variant counting the parent among its children
_process_group_offbyone(colors) ==
    LET sorted_colors == sorted(colors)
    IN [i \in 1..Len(sorted_colors) |->
           IF i = 1 THEN _create_parent(sorted_colors[1], Len(sorted_colors))
           ELSE _create_child(sorted_colors[i], sorted_colors[1].message_id)]

\* RankingEngine._process_group: colors is a non-empty group
_process_group(colors) ==
    LET sorted_colors == sorted(colors)
    IN IF Len(sorted_colors) = 1
       THEN <<_create_parent(sorted_colors[1], 0)>>
       ELSE LET parent == sorted_colors[1]
                children == Tail(sorted_colors)
            IN <<_create_parent(parent, Len(children))>>
               \o [i \in 1..Len(children) |->
                      _create_child(children[i], parent.message_id)]

\* keys of the dict built by _group_by_cusip, in insertion order
RECURSIVE CusipOrder(_)
CusipOrder(colors) ==
    IF colors = <<>> THEN <<>>
    ELSE LET init == SubSeq(colors, 1, Len(colors) - 1)
             c == colors[Len(colors)].cusip
         IN IF \E i \in 1..Len(init) : init[i].cusip = c
            THEN CusipOrder(init)
            ELSE Append(CusipOrder(init), c)

_group_by_cusip(colors, cusip) == SelectSeq(colors, LAMBDA c : c.cusip = cusip)

RECURSIVE ExtendGroups(_, _)
ExtendGroups(colors, keys) ==
    IF keys = <<>> THEN <<>>
    ELSE _process_group(_group_by_cusip(colors, Head(keys)))
         \o ExtendGroups(colors, Tail(keys))

\* RankingEngine.run_colors
run_colors(colors) ==
    IF colors = <<>> THEN <<>> ELSE ExtendGroups(colors, CusipOrder(colors))

RankInit == /\ raw_colors = <<>>
            /\ rankResult = <<>>
            /\ rankPc = "input"

\* the caller builds the list of raw colors, one record at a time
AddColor == /\ rankPc = "input"
            /\ Len(raw_colors) < MaxColors
            /\ \E c \in RawRecords(Len(raw_colors) + 1) :
                  raw_colors' = Append(raw_colors, c)
            /\ UNCHANGED <<rankResult, rankPc>>
            /\ UNCHANGED <<outVars, evalVars, storeVars, applyVars, cronVars, callVars>>

RunColors == /\ rankPc = "input"
             /\ rankResult' = run_colors(raw_colors)
             /\ rankPc' = "done"
             /\ UNCHANGED <<raw_colors>>
             /\ UNCHANGED <<outVars, evalVars, storeVars, applyVars, cronVars, callVars>>

RankNext == AddColor \/ RunColors


(***************************************************************************)
(* Python values and strings.  A string is a sequence of one-character     *)
(* strings; a value is a string, a number (scaled by 100) or None.         *)
(***************************************************************************)
Str(chars)  == [t |-> "str", s |-> chars]
Num(n)      == [t |-> "int", n |-> n]
NoneVal     == [t |-> "none"]

UpperChars == <<"A","B","C","D","E","F","G","H","I","J","K","L","M",
                "N","O","P","Q","R","S","T","U","V","W","X","Y","Z">>
LowerChars == <<"a","b","c","d","e","f","g","h","i","j","k","l","m",
                "n","o","p","q","r","s","t","u","v","w","x","y","z">>
DigitChars == <<"0","1","2","3","4","5","6","7","8","9">>

IsDigit(c)  == \E i \in 1..10 : DigitChars[i] = c
DigitVal(c) == (CHOOSE i \in 1..10 : DigitChars[i] = c) - 1

\* str.lower()
LowerChar(c) == IF \E i \in 1..26 : UpperChars[i] = c
                THEN LowerChars[CHOOSE i \in 1..26 : UpperChars[i] = c]
                ELSE c
ToLower(s) == [i \in 1..Len(s) |-> LowerChar(s[i])]

\* decimal digits of a natural number
RECURSIVE Digits(_)
Digits(n) == IF n < 10 THEN <<DigitChars[n + 1]>>
             ELSE Append(Digits(n \div 10), DigitChars[(n % 10) + 1])

\* str(value)
PyStr(v) == CASE v.t = "str"  -> v.s
              [] v.t = "int"  -> Digits(v.n)
              [] v.t = "none" -> <<"N","o","n","e">>

RECURSIVE DecVal(_)
DecVal(s) == IF s = <<>> THEN 0
             ELSE 10 * DecVal(SubSeq(s, 1, Len(s) - 1)) + DigitVal(s[Len(s)])

\* variant of float(s) that drops the fraction digits, as int() of the
\* integer part would
ParseFloat_truncating(s) ==
    LET dots == {i \in 1..Len(s) : s[i] = "."}
        wellFormed == /\ \A i \in 1..Len(s) : IsDigit(s[i]) \/ s[i] = "."
                      /\ Cardinality(dots) <= 1
                      /\ \E i \in 1..Len(s) : IsDigit(s[i])
    IN IF ~wellFormed THEN [ok |-> FALSE, v |-> 0]
       ELSE IF dots = {} THEN [ok |-> TRUE, v |-> 100 * DecVal(s)]
       ELSE LET d == CHOOSE i \in dots : TRUE
            IN [ok |-> TRUE, v |-> 100 * DecVal(SubSeq(s, 1, d - 1))]

\* float(s) for the decimal literals digits[.digits] (at most two fraction
\* digits), as [ok, v] with v scaled by 100; any other text raises ValueError
ParseFloat(s) ==
    LET dots == {i \in 1..Len(s) : s[i] = "."}
        wellFormed == /\ \A i \in 1..Len(s) : IsDigit(s[i]) \/ s[i] = "."
                      /\ Cardinality(dots) <= 1
                      /\ \E i \in 1..Len(s) : IsDigit(s[i])
    IN IF ~wellFormed THEN [ok |-> FALSE, v |-> 0]
       ELSE IF dots = {} THEN [ok |-> TRUE, v |-> 100 * DecVal(s)]
       ELSE LET d == CHOOSE i \in dots : TRUE
                ip == SubSeq(s, 1, d - 1)
                fp == SubSeq(s, d + 1, Len(s))
                fp2 == IF Len(fp) = 0 THEN <<"0","0">>
                       ELSE IF Len(fp) = 1 THEN <<fp[1], "0">>
                       ELSE SubSeq(fp, 1, 2)
            IN [ok |-> TRUE, v |-> 100 * DecVal(ip) + DecVal(fp2)]

\* float(value) as called on value2: None raises TypeError
FloatOf(v) == IF v.t = "none" THEN [ok |-> FALSE, v |-> 0]
              ELSE IF v.t = "int" THEN [ok |-> TRUE, v |-> 100 * v.n]
              ELSE ParseFloat(v.s)

\* a in b, a.startswith / endswith
StartsWith(s, pre) == Len(pre) <= Len(s) /\ SubSeq(s, 1, Len(pre)) = pre
EndsWith(s, suf)   == Len(suf) <= Len(s)
                      /\ SubSeq(s, Len(s) - Len(suf) + 1, Len(s)) = suf
Contains(s, sub)   == \E i \in 1..(Len(s) + 1) :
                         /\ i + Len(sub) - 1 <= Len(s)
                         /\ SubSeq(s, i, i + Len(sub) - 1) = sub

(***************************************************************************)
(* Condition evaluator and rule engine                                     *)
(***************************************************************************)
\* operator spellings with upper-case letters and their str.lower()
OperatorLower(op) ==
    CASE op = "Equal to"     -> "equal to"
      [] op = "EQUALS"       -> "equals"
      [] op = "Is Equal To"  -> "is equal to"
      [] op = "Between"      -> "between"
      [] op = "Contains"     -> "contains"
      [] op = "IS EQUAL TO"  -> "is equal to"
      [] op = "Equals"       -> "equals"
      [] op = "EQUAL_TO"     -> "equal_to"
      [] op = "Not Equal To" -> "not equal to"
      [] op = "NOT_EQUALS"   -> "not_equals"
      [] op = "Less Than"    -> "less than"
      [] op = "GREATER THAN" -> "greater than"
      [] op = "BETWEEN"      -> "between"
      [] op = "Does Not Contain" -> "does not contain"
      [] op = "Starts With"  -> "starts with"
      [] op = "ENDS_WITH"    -> "ends_with"
      [] OTHER               -> op

\* variant of operator_map without the entries under "Legacy format support"
operator_map_no_legacy(op) ==
    CASE op = "equal to"              -> "equal_to"
      [] op = "not equal to"          -> "not_equal_to"
      [] op = "less than"             -> "less_than"
      [] op = "greater than"          -> "greater_than"
      [] op = "less than equal to"    -> "less_than_equal_to"
      [] op = "greater than equal to" -> "greater_than_equal_to"
      [] op = "between"               -> "between"
      [] op = "contains"              -> "contains"
      [] op = "starts with"           -> "starts_with"
      [] op = "ends with"             -> "ends_with"
      [] OTHER                        -> op

\* operator_map.get(operator, operator)
operator_map(op) ==
    CASE op = "equal to"              -> "equal_to"
      [] op = "not equal to"          -> "not_equal_to"
      [] op = "less than"             -> "less_than"
      [] op = "greater than"          -> "greater_than"
      [] op = "less than equal to"    -> "less_than_equal_to"
      [] op = "greater than equal to" -> "greater_than_equal_to"
      [] op = "between"               -> "between"
      [] op = "contains"              -> "contains"
      [] op = "starts with"           -> "starts_with"
      [] op = "ends with"             -> "ends_with"
      [] op = "is equal to"           -> "equal_to"
      [] op = "is not equal to"       -> "not_equal_to"
      [] op = "is less than"          -> "less_than"
      [] op = "is greater than"       -> "greater_than"
      [] op = "equals"                -> "equal_to"
      [] op = "not_equals"            -> "not_equal_to"
      [] op = "not_contains"          -> "not_contains"
      [] op = "does not contain"      -> "not_contains"
      [] op = "greater_than"          -> "greater_than"
      [] op = "less_than"             -> "less_than"
      [] op = "greater_or_equal"      -> "greater_than_equal_to"
      [] op = "less_or_equal"         -> "less_than_equal_to"
      [] OTHER                        -> op

\* a row is a sequence of [key, val] with distinct keys (dict order)
RowLookup(row, column) ==
    LET hits == {i \in 1..Len(row) : ToLower(row[i].key) = ToLower(column)}
    IN IF hits = {} THEN <<>>
       ELSE PyStr(row[CHOOSE i \in hits : \A j \in hits : i <= j].val)

Condition(type, column, operator, value, value2) ==
    [type |-> type, column |-> column, operator |-> operator,
     value |-> value, value2 |-> value2]

\* evaluate_condition(row, condition)
evaluate_condition(row, condition) ==
    LET operator      == operator_map(OperatorLower(condition.operator))
        row_value     == RowLookup(row, condition.column)
        compare_value == PyStr(condition.value)
        rv == ParseFloat(row_value)
        cv == ParseFloat(compare_value)
        v2 == FloatOf(condition.value2)
    IN CASE operator = "equal_to" ->
              IF rv.ok /\ cv.ok THEN rv.v = cv.v
              ELSE ToLower(row_value) = ToLower(compare_value)
         [] operator = "not_equal_to" ->
              IF rv.ok /\ cv.ok THEN rv.v # cv.v
              ELSE ToLower(row_value) # ToLower(compare_value)
         [] operator = "contains" ->
              Contains(ToLower(row_value), ToLower(compare_value))
         [] operator = "not_contains" ->
              ~Contains(ToLower(row_value), ToLower(compare_value))
         [] operator = "starts_with" ->
              StartsWith(ToLower(row_value), ToLower(compare_value))
         [] operator = "ends_with" ->
              EndsWith(ToLower(row_value), ToLower(compare_value))
         [] operator = "less_than" -> rv.ok /\ cv.ok /\ rv.v < cv.v
         [] operator = "greater_than" -> rv.ok /\ cv.ok /\ rv.v > cv.v
         [] operator = "less_than_equal_to" -> rv.ok /\ cv.ok /\ rv.v <= cv.v
         [] operator = "greater_than_equal_to" -> rv.ok /\ cv.ok /\ rv.v >= cv.v
         [] operator = "between" ->
              rv.ok /\ cv.ok /\ v2.ok /\ cv.v <= rv.v /\ rv.v <= v2.v
         [] OTHER -> FALSE

\* variant grouping to the right: A AND (B OR C)
RECURSIVE evaluate_rule_right(_, _)
evaluate_rule_right(row, rule) ==
    LET conditions == rule.conditions
    IN IF conditions = <<>> THEN FALSE
       ELSE IF Len(conditions) = 1 THEN evaluate_condition(row, conditions[1])
       ELSE LET m == evaluate_condition(row, conditions[1])
                rest == evaluate_rule_right(row, [rule EXCEPT !.conditions = Tail(conditions)])
                type == conditions[2].type
            IN CASE type = "and" -> m /\ rest
                 [] type = "or"  -> m \/ rest
                 [] OTHER        -> rest

\* variant of the type lookup that ignores case
get_type_lower(condition) ==
    IF "type" \in DOMAIN condition
    THEN (CASE condition.type = "AND" -> "and"
            [] condition.type = "OR" -> "or"
            [] condition.type = "WHERE" -> "where"
            [] OTHER -> condition.type)
    ELSE "where"

\* condition.get('type', 'where')
get_type(condition) ==
    IF "type" \in DOMAIN condition THEN condition.type ELSE "where"

\* the loop of evaluate_rule from condition i on; result is Optional[bool]
RECURSIVE EvalFrom(_, _, _, _)
EvalFrom(row, conditions, i, result) ==
    IF i > Len(conditions) THEN result
    ELSE LET condition_type  == get_type(conditions[i])
             condition_match == evaluate_condition(row, conditions[i])
             next == IF result = None THEN condition_match
                     ELSE IF condition_type = "and"
                          THEN (result[1] /\ condition_match)
                     ELSE IF condition_type = "or"
                          THEN (result[1] \/ condition_match)
                     ELSE IF condition_type = "where" THEN condition_match
                     ELSE result[1]
         IN EvalFrom(row, conditions, i + 1, Some(next))

\* evaluate_rule(row, rule)
evaluate_rule(row, rule) ==
    IF rule.conditions = <<>> THEN FALSE
    ELSE EvalFrom(row, rule.conditions, 1, None)[1]

\* ---- inputs of the rule-evaluation specification
MaxConditions == 3
EvColumns == {<<"a">>, <<"b">>, <<"c">>}
EvTypes   == {"where", "and", "or"}
Bits      == {<<"0">>, <<"1">>}

EvRows == {<<[key |-> <<"A">>, val |-> Str(x)],
             [key |-> <<"b">>, val |-> Str(y)],
             [key |-> <<"c">>, val |-> Str(z)]>> : x, y, z \in Bits}

EvConditions == {Condition(t, c, "equal to", Str(<<"1">>), NoneVal) :
                    t \in EvTypes, c \in EvColumns}

EvRules == UNION {[1..n -> EvConditions] : n \in 0..MaxConditions}

EvalInit == /\ evRow \in EvRows
            /\ evRule \in {[conditions |-> cs] : cs \in EvRules}
            /\ evResult = None
            /\ evPc = "input"

EvaluateRule == /\ evPc = "input"
                /\ evResult' = Some(evaluate_rule(evRow, evRule))
                /\ evPc' = "done"
                /\ UNCHANGED <<evRow, evRule>>
                /\ UNCHANGED <<outVars, rankVars, storeVars, applyVars, cronVars, callVars>>

EvalNext == EvaluateRule

\* ---- evaluate_condition on a stored condition: a dict whose keys may be
\* missing and whose values are whatever JSON the rule was created with
Absent == [t |-> "absent"]
OpName(name) == [t |-> "str", name |-> name]

CondDict(column, operator, value, value2) ==
    [type |-> "where", column |-> column, operator |-> operator,
     value |-> value, value2 |-> value2]

\* condition.get(key, '')
GetOr(v, default) == IF v.t = "absent" THEN default ELSE v

\* evaluate_condition(row, condition), lines 103-226: operator.lower() and
\* column.lower() raise AttributeError on a value that is not a str, the
\* second only when the row has a key to compare with
evaluate_condition_call(row, condition) ==
    LET column   == GetOr(condition.column, Str(<<>>))
        operator == GetOr(condition.operator, OpName(""))
        value    == GetOr(condition.value, Str(<<>>))
        value2   == GetOr(condition.value2, Str(<<>>))
    IN IF operator.t # "str" \/ (row # <<>> /\ column.t # "str")
       THEN [raised |-> TRUE, result |-> FALSE]
       ELSE [raised |-> FALSE,
             result |-> evaluate_condition(row,
                            Condition(condition.type,
                                      IF column.t = "str" THEN column.s ELSE <<>>,
                                      operator.name, value, value2))]

\* the spellings of each operator: the keys of operator_map, the backend
\* names, and some of their letter cases
OperatorSpellings ==
    {{"equal to", "is equal to", "equals", "equal_to", "Equal to", "EQUALS",
      "Is Equal To", "IS EQUAL TO", "Equals", "EQUAL_TO"},
     {"not equal to", "is not equal to", "not_equals", "not_equal_to",
      "Not Equal To", "NOT_EQUALS"},
     {"less than", "is less than", "less_than", "Less Than"},
     {"greater than", "is greater than", "greater_than", "GREATER THAN"},
     {"less than equal to", "less_or_equal", "less_than_equal_to"},
     {"greater than equal to", "greater_or_equal", "greater_than_equal_to"},
     {"between", "Between", "BETWEEN"},
     {"contains", "Contains"},
     {"not_contains", "does not contain", "Does Not Contain"},
     {"starts with", "starts_with", "Starts With"},
     {"ends with", "ends_with", "ENDS_WITH"}}

CondOperators ==
    {OpName(name) : name \in UNION OperatorSpellings \cup {"like"}}
        \cup {Absent, NoneVal}
CondColumns == {Str(<<"a">>), Absent, NoneVal}
CondValues  == {Str(<<"1","0">>), Num(10), Str(<<"a","b","c">>), Absent, NoneVal}
CondValues2 == {Str(<<"2","0">>), Num(20), Str(<<"x">>), Absent, NoneVal}
CondRowValues ==
    {Str(<<"9",".","9","9">>), Str(<<"1","0">>), Str(<<"1","5">>), Str(<<"2","0">>),
     Str(<<"2","0",".","0","1">>), Str(<<"A","B","C">>), Str(<<>>), Num(15)}
CondRows ==
    {<<[key |-> <<"A">>, val |-> v]>> : v \in CondRowValues}
        \cup {<<[key |-> <<"b">>, val |-> Str(<<"1","5">>)]>>, <<>>}

CondInit == /\ evRow \in CondRows
            /\ evRule \in {[conditions |-> <<CondDict(c, o, v, w)>>] :
                                c \in CondColumns, o \in CondOperators,
                                v \in CondValues, w \in CondValues2}
            /\ evResult = None
            /\ evPc = "input"

EvaluateCondition ==
    /\ evPc = "input"
    /\ LET call == evaluate_condition_call(evRow, evRule.conditions[1])
       IN /\ evResult' = IF call.raised THEN None ELSE Some(call.result)
          /\ evPc' = IF call.raised THEN "raised" ELSE "done"
    /\ UNCHANGED <<evRow, evRule>>
    /\ UNCHANGED <<outVars, rankVars, storeVars, applyVars, cronVars, callVars>>

CondNext == EvaluateCondition

\* ---- save_rules / load_rules through JSONStorage: json.dump writes every
\* scalar of the document as a JSON token, json.load reads the tokens back;
\* the nesting of objects and arrays is kept as it is
Bool(b)    == [t |-> "bool", b |-> b]
Float(n)   == [t |-> "float", n |-> n]
Invalid    == [t |-> "invalid"]
Chars(txt) == CASE txt = "null"  -> <<"n","u","l","l">>
                [] txt = "true"  -> <<"t","r","u","e">>
                [] txt = "false" -> <<"f","a","l","s","e">>

\* the JSON string escapes of the quote and the backslash
RECURSIVE Escape(_)
Escape(s) ==
    IF s = <<>> THEN <<>>
    ELSE IF Head(s) = "\"" \/ Head(s) = "\\" THEN <<"\\", Head(s)>> \o Escape(Tail(s))
    ELSE <<Head(s)>> \o Escape(Tail(s))

RECURSIVE Unescape(_)
Unescape(s) ==
    IF s = <<>> THEN <<>>
    ELSE IF Head(s) = "\\" /\ Len(s) >= 2 THEN <<s[2]>> \o Unescape(Tail(Tail(s)))
    ELSE <<Head(s)>> \o Unescape(Tail(s))

\* float.__repr__ of a number with at most two fraction digits: 15.0, 20.5, 9.99
FloatRepr(n) ==
    Digits(n \div 100) \o <<".">> \o
        (IF n % 10 = 0 THEN <<DigitChars[((n % 100) \div 10) + 1]>>
         ELSE <<DigitChars[((n % 100) \div 10) + 1], DigitChars[(n % 10) + 1]>>)

\* variant of the encoder that writes a string without quotes
JsonEncode_unquoted(v) ==
    CASE v.t = "str"   -> v.s
      [] v.t = "int"   -> Digits(v.n)
      [] v.t = "float" -> FloatRepr(v.n)
      [] v.t = "bool"  -> IF v.b THEN Chars("true") ELSE Chars("false")
      [] v.t = "none"  -> Chars("null")

\* json.dump of a scalar
JsonEncode(v) ==
    CASE v.t = "str"   -> <<"\"">> \o Escape(v.s) \o <<"\"">>
      [] v.t = "int"   -> Digits(v.n)
      [] v.t = "float" -> FloatRepr(v.n)
      [] v.t = "bool"  -> IF v.b THEN Chars("true") ELSE Chars("false")
      [] v.t = "none"  -> Chars("null")

\* json.load of a token; Invalid stands for JSONDecodeError
JsonDecode(txt) ==
    IF txt # <<>> /\ Head(txt) = "\""
    THEN IF Len(txt) >= 2 /\ txt[Len(txt)] = "\""
         THEN Str(Unescape(SubSeq(txt, 2, Len(txt) - 1))) ELSE Invalid
    ELSE IF txt = Chars("null") THEN NoneVal
    ELSE IF txt = Chars("true") THEN Bool(TRUE)
    ELSE IF txt = Chars("false") THEN Bool(FALSE)
    ELSE IF ~ParseFloat(txt).ok THEN Invalid
    ELSE IF \E i \in 1..Len(txt) : txt[i] = "." THEN Float(ParseFloat(txt).v)
    ELSE Num(DecVal(txt))

\* a key that a dict does not have is not written and not read
DumpValue(v) == IF v.t = "absent" THEN v ELSE [t |-> "json", text |-> JsonEncode(v)]
LoadValue(j) == IF j.t = "absent" THEN j ELSE JsonDecode(j.text)

DumpCondition(c) == [k \in DOMAIN c |-> DumpValue(c[k])]
LoadCondition(c) == [k \in DOMAIN c |-> LoadValue(c[k])]

\* JSONStorage.save("rules", {"rules": rules}): the file written
json_dump(rule_list) ==
    [i \in 1..Len(rule_list) |->
        [id |-> DumpValue(rule_list[i].id), name |-> DumpValue(rule_list[i].name),
         is_active |-> DumpValue(rule_list[i].is_active),
         conditions |-> [k \in 1..Len(rule_list[i].conditions) |->
                            DumpCondition(rule_list[i].conditions[k])]]]

\* JSONStorage.load("rules").get('rules', [])
json_load(file) ==
    [i \in 1..Len(file) |->
        [id |-> LoadValue(file[i].id), name |-> LoadValue(file[i].name),
         is_active |-> LoadValue(file[i].is_active),
         conditions |-> [k \in 1..Len(file[i].conditions) |->
                            LoadCondition(file[i].conditions[k])]]]

\* rules of three conditions with values of mixed types, the second a
\* between with value2
JsonValues ==
    {Str(<<"1","5">>), Num(15), Float(1550), Float(999), NoneVal, Bool(TRUE),
     Str(<<"n","u","l","l">>), Str(<<"a","\"","b","\\">>), Str(<<>>)}
JsonBounds == {Str(<<"1","0">>), Num(10), Float(2001), Float(1500)}
JsonRule(name, v1, lo, hi, v3) ==
    [id |-> Num(1), name |-> name, is_active |-> Bool(TRUE),
     conditions |->
        <<[type |-> Str(<<"w">>), column |-> Str(<<"a">>),
           operator |-> Str(<<"e","q">>), value |-> v1, value2 |-> Absent],
          [type |-> Str(<<"a","n","d">>), column |-> Str(<<"b">>),
           operator |-> Str(<<"b","e","t","w","e","e","n">>), value |-> lo,
           value2 |-> hi],
          [type |-> Str(<<"o","r">>), column |-> Str(<<"c">>),
           operator |-> Str(<<"e","q">>), value |-> v3, value2 |-> NoneVal]>>]

JsonInit ==
    calls \in {<<[op |-> "save_rules", pc |-> "input", rules |-> <<r>>,
                  file |-> None, loaded |-> None]>> :
                 r \in {JsonRule(Str(<<"r","\"">>), v1, lo, hi, v3) :
                           v1 \in JsonValues, lo \in JsonBounds, hi \in JsonBounds,
                           v3 \in {Str(<<"x">>), Num(0)}}}

\* save_rules(rules)
SaveRules ==
    /\ calls[1].pc = "input"
    /\ calls' = [calls EXCEPT ![1].file = Some(json_dump(calls[1].rules)),
                              ![1].pc = "saved"]
    /\ UNCHANGED <<outVars, rankVars, evalVars, storeVars, applyVars, cronVars>>

\* load_rules()
LoadRules ==
    /\ calls[1].pc = "saved"
    /\ calls' = [calls EXCEPT ![1].loaded = Some(json_load(calls[1].file[1])),
                              ![1].pc = "loaded"]
    /\ UNCHANGED <<outVars, rankVars, evalVars, storeVars, applyVars, cronVars>>

JsonNext == SaveRules \/ LoadRules


(***************************************************************************)
(* apply_rules                                                             *)
(***************************************************************************)
\* variant filtering an explicit id list by is_active as well
select_rules_active_only(all_rules, specific_rule_ids) ==
    IF specific_rule_ids # None
    THEN SelectSeq(all_rules, LAMBDA r : r.id \in specific_rule_ids[1] /\ r.is_active)
    ELSE SelectSeq(all_rules, LAMBDA r : r.is_active)

\* the rules apply_rules selects: the listed ids, or get_active_rules()
select_rules(all_rules, specific_rule_ids) ==
    IF specific_rule_ids # None
    THEN SelectSeq(all_rules, LAMBDA r : r.id \in specific_rule_ids[1])
    ELSE SelectSeq(all_rules, LAMBDA r : r.is_active)

\* variant of the inner loop without the break: every matching rule counts
CountMatches(row, rs) ==
    Cardinality({k \in 1..Len(rs) : evaluate_rule(row, rs[k])})

RECURSIVE filter_rows_nobreak(_, _, _, _)
filter_rows_nobreak(data, rs, filtered_data, excluded_count) ==
    IF data = <<>> THEN [filtered_data |-> filtered_data,
                         excluded_count |-> excluded_count]
    ELSE LET row == Head(data)
             n   == CountMatches(row, rs)
         IN filter_rows_nobreak(Tail(data), rs,
                IF n > 0 THEN filtered_data ELSE Append(filtered_data, row),
                excluded_count + n)

\* inner loop: index of the first rule matching the row from k on, 0 if none
RECURSIVE FirstMatch(_, _, _)
FirstMatch(row, rs, k) ==
    IF k > Len(rs) THEN 0
    ELSE IF evaluate_rule(row, rs[k]) THEN k
    ELSE FirstMatch(row, rs, k + 1)

\* outer loop of apply_rules over the rows
RECURSIVE filter_rows(_, _, _, _)
filter_rows(data, rs, filtered_data, excluded_count) ==
    IF data = <<>> THEN [filtered_data |-> filtered_data,
                         excluded_count |-> excluded_count]
    ELSE LET row == Head(data)
             should_exclude == FirstMatch(row, rs, 1) # 0
         IN filter_rows(Tail(data), rs,
                IF should_exclude THEN filtered_data ELSE Append(filtered_data, row),
                IF should_exclude THEN excluded_count + 1 ELSE excluded_count)

\* apply_rules(data, specific_rule_ids) on the stored rules
apply_rules(all_rules, data, specific_rule_ids) ==
    LET rs == select_rules(all_rules, specific_rule_ids)
    IN IF rs = <<>>
       THEN [filtered_data |-> data, excluded_count |-> 0,
             rules_applied |-> 0, original_count |-> Len(data)]
       ELSE LET f == filter_rows(data, rs, <<>>, 0)
            IN [filtered_data |-> f.filtered_data,
                excluded_count |-> f.excluded_count,
                rules_applied |-> Len(rs), original_count |-> Len(data)]

\* ---- inputs of the apply_rules specification
MaxStoredRules == 2
MaxRows == 2

Cond(col, op, val) == Condition("where", col, op, Str(val), NoneVal)
CondOr(col, op, val) == Condition("or", col, op, Str(val), NoneVal)

ApplyConditionLists ==
    {<<>>,
     <<Cond(<<"a">>, "equal to", <<"1">>)>>,
     <<Cond(<<"b">>, "equals", <<"1">>)>>,
     <<Cond(<<"a">>, "equal to", <<"1">>), CondOr(<<"b">>, "equal to", <<"1">>)>>}

ApplyRows == {<<[key |-> <<"A">>, val |-> Str(x)],
                [key |-> <<"b">>, val |-> Str(y)]>> : x, y \in Bits}

RuleName(i) == <<"r", DigitChars[i + 1]>>

StoredRule(i, active, conds) ==
    [id |-> i, name |-> RuleName(i), is_active |-> active, conditions |-> conds]

ApplyStores ==
    UNION {{[i \in 1..n |-> StoredRule(i, f[i][1], f[i][2])] :
               f \in [1..n -> BOOLEAN \X ApplyConditionLists]} :
           n \in 0..MaxStoredRules}

ApplyIdLists == {None} \cup {Some(ids) : ids \in SUBSET (1..(MaxStoredRules + 1))}

ApplyInit == /\ rules \in ApplyStores
             /\ unified_logs = <<>>
             /\ next_id = 1
             /\ lastOp = [op |-> "none", ok |-> TRUE, before |-> <<>>]
             /\ applyData \in UNION {[1..n -> ApplyRows] : n \in 0..MaxRows}
             /\ applyIds \in ApplyIdLists
             /\ rules_to_apply = <<>>
             /\ applyResult = None
             /\ applyPc = "input"

ApplyRules == /\ applyPc = "input"
              /\ rules_to_apply' = select_rules(rules, applyIds)
              /\ applyResult' = Some(apply_rules(rules, applyData, applyIds))
              /\ applyPc' = "done"
              /\ UNCHANGED <<applyData, applyIds>>
              /\ UNCHANGED <<outVars, rankVars, evalVars, storeVars, cronVars, callVars>>

ApplyNext == ApplyRules


(***************************************************************************)
(* Rule store with audit log and revert                                    *)
(* The store is the record [rules, logs, next_id] read and written by the  *)
(* handlers; every operator returns [ok, st].                              *)
(***************************************************************************)
MaxUnifiedLogs == 500

Store(rs, logs, nid) == [rules |-> rs, logs |-> logs, next_id |-> nid]

NoRevertData == [action |-> "", rule_id |-> None, rule_data |-> None]
RevertDelete(rule_id) == [action |-> "delete", rule_id |-> Some(rule_id),
                          rule_data |-> None]
RevertRestore(rule) == [action |-> "restore", rule_id |-> None,
                        rule_data |-> Some(rule)]

\* logging_service.add_log
add_log(st, action, entity_id, can_revert, revert_data) ==
    LET log_entry == [log_id |-> st.next_id, module |-> "rules",
                      action |-> action, entity_id |-> entity_id,
                      can_revert |-> can_revert, revert_data |-> revert_data,
                      reverted_at |-> FALSE]
        logs == <<log_entry>> \o st.logs
    IN [st EXCEPT !.logs = SubSeq(logs, 1, IF Len(logs) > MaxUnifiedLogs
                                           THEN MaxUnifiedLogs ELSE Len(logs)),
                  !.next_id = st.next_id + 1]

MaxOf(S) == IF S = {} THEN 0 ELSE CHOOSE m \in S : \A x \in S : x <= m

HasRule(rs, rule_id) == \E i \in 1..Len(rs) : rs[i].id = rule_id
\* the first rule with this id, as the for loops find it
RuleIdx(rs, rule_id) ==
    CHOOSE i \in 1..Len(rs) : rs[i].id = rule_id
                              /\ \A j \in 1..(i - 1) : rs[j].id # rule_id

\* variant of create_rule comparing names exactly, case included
create_rule_exact(st, name, conditions, is_active) ==
    IF \E i \in 1..Len(st.rules) : st.rules[i].name = name
    THEN [ok |-> FALSE, st |-> st]
    ELSE LET new_id == MaxOf({st.rules[i].id : i \in 1..Len(st.rules)}) + 1
             new_rule == [id |-> new_id, name |-> name, is_active |-> is_active,
                          conditions |-> conditions]
             saved == [st EXCEPT !.rules = Append(st.rules, new_rule)]
         IN [ok |-> TRUE,
             st |-> add_log(saved, "create", new_id, TRUE, RevertDelete(new_id))]

\* rules_service.create_rule
create_rule(st, name, conditions, is_active) ==
    IF \E i \in 1..Len(st.rules) : ToLower(st.rules[i].name) = ToLower(name)
    THEN [ok |-> FALSE, st |-> st]
    ELSE LET new_id == MaxOf({st.rules[i].id : i \in 1..Len(st.rules)}) + 1
             new_rule == [id |-> new_id, name |-> name, is_active |-> is_active,
                          conditions |-> conditions]
             saved == [st EXCEPT !.rules = Append(st.rules, new_rule)]
         IN [ok |-> TRUE,
             st |-> add_log(saved, "create", new_id, TRUE, RevertDelete(new_id))]

\* rules_service.update_rule; name, conditions, is_active are Optional
update_rule(st, rule_id, name, conditions, is_active) ==
    IF ~HasRule(st.rules, rule_id) THEN [ok |-> FALSE, st |-> st]
    ELSE LET i == RuleIdx(st.rules, rule_id)
             original_state == st.rules[i]
             updated ==
               [original_state EXCEPT
                  !.name = IF name # None THEN name[1] ELSE @,
                  !.conditions = IF conditions # None THEN conditions[1] ELSE @,
                  !.is_active = IF is_active # None THEN is_active[1] ELSE @]
             saved == [st EXCEPT !.rules[i] = updated]
         IN [ok |-> TRUE,
             st |-> add_log(saved, "update", rule_id, TRUE,
                            RevertRestore(original_state))]

\* variant of delete_rule whose audit entry keeps the id but not the record
delete_rule_idonly(st, rule_id) ==
    IF ~HasRule(st.rules, rule_id) THEN [ok |-> FALSE, st |-> st]
    ELSE LET saved == [st EXCEPT !.rules = SelectSeq(st.rules,
                                              LAMBDA r : r.id # rule_id)]
         IN [ok |-> TRUE,
             st |-> add_log(saved, "delete", rule_id, TRUE, RevertDelete(rule_id))]

\* rules_service.delete_rule
delete_rule(st, rule_id) ==
    IF ~HasRule(st.rules, rule_id) THEN [ok |-> FALSE, st |-> st]
    ELSE LET deleted_rule == st.rules[RuleIdx(st.rules, rule_id)]
             saved == [st EXCEPT !.rules = SelectSeq(st.rules,
                                              LAMBDA r : r.id # rule_id)]
         IN [ok |-> TRUE,
             st |-> add_log(saved, "delete", rule_id, TRUE,
                            RevertRestore(deleted_rule))]

\* rules_service.toggle_rule
toggle_rule(st, rule_id) ==
    IF ~HasRule(st.rules, rule_id) THEN [ok |-> FALSE, st |-> st]
    ELSE LET i == RuleIdx(st.rules, rule_id)
         IN [ok |-> TRUE,
             st |-> [st EXCEPT !.rules[i].is_active = ~st.rules[i].is_active]]

LogIdx(logs, log_id) ==
    CHOOSE i \in 1..Len(logs) : logs[i].log_id = log_id
                                /\ \A j \in 1..(i - 1) : logs[j].log_id # log_id

\* variant of revert_log without the test of reverted_at
revert_log_repeatable(st, log_id) ==
    IF ~\E i \in 1..Len(st.logs) : st.logs[i].log_id = log_id
    THEN [ok |-> FALSE, st |-> st]
    ELSE LET i == LogIdx(st.logs, log_id)
             log_entry == st.logs[i]
         IN IF \/ ~log_entry.can_revert
               \/ log_entry.revert_data = NoRevertData
            THEN [ok |-> FALSE, st |-> st]
            ELSE LET marked == [st EXCEPT !.logs[i].reverted_at = TRUE]
                 IN [ok |-> TRUE,
                     st |-> add_log(marked, "revert", log_entry.entity_id,
                                    FALSE, NoRevertData)]

\* logging_service.revert_log: marks the entry reverted and adds a 'revert' entry
revert_log(st, log_id) ==
    IF ~\E i \in 1..Len(st.logs) : st.logs[i].log_id = log_id
    THEN [ok |-> FALSE, st |-> st]
    ELSE LET i == LogIdx(st.logs, log_id)
             log_entry == st.logs[i]
         IN IF \/ ~log_entry.can_revert
               \/ log_entry.reverted_at
               \/ log_entry.revert_data = NoRevertData
            THEN [ok |-> FALSE, st |-> st]
            ELSE LET marked == [st EXCEPT !.logs[i].reverted_at = TRUE]
                 IN [ok |-> TRUE,
                     st |-> add_log(marked, "revert", log_entry.entity_id,
                                    FALSE, NoRevertData)]

\* revert_service.revert_rules_operation
revert_rules_operation(st, revert_data, entity_id) ==
    IF revert_data.action = "delete"
    THEN delete_rule(st, revert_data.rule_id[1])
    ELSE IF revert_data.action = "restore"
    THEN LET rule_data == revert_data.rule_data[1]
             rule_id == rule_data.id
         IN IF HasRule(st.rules, rule_id)
            THEN update_rule(st, rule_id, Some(rule_data.name),
                             Some(rule_data.conditions), Some(rule_data.is_active))
            ELSE [ok |-> TRUE,
                  st |-> [st EXCEPT !.rules = Append(st.rules, rule_data)]]
    ELSE [ok |-> FALSE, st |-> st]

\* revert_service.apply_revert
apply_revert(st, log_id) ==
    LET result == revert_log(st, log_id)
    IN IF ~result.ok THEN result
       ELSE LET log_entry == st.logs[LogIdx(st.logs, log_id)]
            IN revert_rules_operation(result.st, log_entry.revert_data,
                                      log_entry.entity_id)

\* ---- the handlers as actions on the stored state
MaxRules == 2
MaxLogId == 3

RuleNames == {<<"r">>, <<"R">>, <<"s">>}
RuleConditionLists == {<<>>, <<Cond(<<"a">>, "equal to", <<"1">>)>>}
RuleIds == 1..(MaxRules + 1)

CurStore == Store(rules, unified_logs, next_id)

Commit(op, result) ==
    /\ rules' = result.st.rules
    /\ unified_logs' = result.st.logs
    /\ next_id' = result.st.next_id
    /\ lastOp' = [op |-> op, ok |-> result.ok, before |-> rules]
    /\ UNCHANGED <<outVars, rankVars, evalVars, applyVars, cronVars, callVars>>

StoreInit == /\ rules = <<>>
             /\ unified_logs = <<>>
             /\ next_id = 1
             /\ lastOp = [op |-> "none", ok |-> TRUE, before |-> <<>>]

CreateRule ==
    /\ Len(rules) < MaxRules
    /\ next_id <= MaxLogId
    /\ \E name \in RuleNames, conds \in RuleConditionLists, active \in BOOLEAN :
          Commit("create", create_rule(CurStore, name, conds, active))

UpdateRule ==
    /\ next_id <= MaxLogId
    /\ \E rule_id \in RuleIds,
          name \in {None} \cup {Some(n) : n \in RuleNames},
          conds \in {None} \cup {Some(c) : c \in RuleConditionLists},
          active \in {None, Some(TRUE), Some(FALSE)} :
          Commit("update", update_rule(CurStore, rule_id, name, conds, active))

DeleteRule ==
    /\ next_id <= MaxLogId
    /\ \E rule_id \in RuleIds : Commit("delete", delete_rule(CurStore, rule_id))

ToggleRule ==
    \E rule_id \in RuleIds : Commit("toggle", toggle_rule(CurStore, rule_id))

ApplyRevert ==
    /\ next_id <= MaxLogId
    /\ \E log_id \in 1..(MaxLogId + 2) :
          Commit("revert", apply_revert(CurStore, log_id))

StoreNext == CreateRule \/ UpdateRule \/ DeleteRule \/ ToggleRule \/ ApplyRevert

\* apply_revert with the audit log bounded after the call, so that a call
\* that adds no entry is still made when the log holds MaxLogId entries
ApplyRevertCall ==
    \E log_id \in 1..(MaxLogId + 2) :
        LET result == apply_revert(CurStore, log_id)
        IN /\ result.st.next_id <= MaxLogId + 1
           /\ Commit("revert", result)

\* creates, deletes and reverts
RevertNext == CreateRule \/ DeleteRule \/ ApplyRevertCall


(***************************************************************************)
(* Cron orchestrator: job registry, scheduler, manual triggers with        *)
(* override, upload buffer and run_automation_task                         *)
(***************************************************************************)
MaxJobs    == 1
MaxRuns    == 2
MaxUploads == 2
MaxCronOps == 4
Schedules  == {"0 9 * * *", "bad"}
JobNames   == {"daily"}
FetchCounts == {0, 1}
MaxExecutionLogs == 100

\* CronTrigger.from_crontab: ValueError unless the expression has five valid fields
from_crontab(schedule, timezone) ==
    [ok |-> schedule = "0 9 * * *",
     trigger |-> [expr |-> schedule, timezone |-> timezone]]

\* variant in which parse_cron_schedule is a defined function that parses the
\* schedule as from_crontab does
parse_cron_schedule_defined(schedule) ==
    [ok |-> schedule = "0 9 * * *",
     trigger |-> [expr |-> schedule, timezone |-> "TIMEZONE"]]

\* the name parse_cron_schedule is bound nowhere in cron_service.py:
\* evaluating it raises NameError
parse_cron_schedule(schedule) ==
    [ok |-> FALSE, trigger |-> [expr |-> schedule, timezone |-> "TIMEZONE"]]

\* a registration cron_job_<id>
Registration(trigger, args) == [trigger |-> trigger, args |-> args]
\* apscheduler_job.next_run_time.isoformat(): fixed by the trigger
NextRunTime(reg) == reg.trigger

Registered(job_id) == job_id \in DOMAIN cronRegs
RemoveReg(regs, job_id) == [j \in DOMAIN regs \ {job_id} |-> regs[j]]
AddReg(regs, job_id, reg) ==
    [j \in DOMAIN regs \cup {job_id} |-> IF j = job_id THEN reg ELSE regs[j]]

\* cron_service.get_next_run_time
get_next_run_time(job_id) ==
    IF Registered(job_id) THEN Some(NextRunTime(cronRegs[job_id])) ELSE None

HasJob(job_id) == \E i \in 1..Len(jobs) : jobs[i].id = job_id
JobIdx(job_id) == CHOOSE i \in 1..Len(jobs) :
                     jobs[i].id = job_id /\ \A k \in 1..(i - 1) : jobs[k].id # job_id
\* cron_service.get_job_by_id
get_job_by_id(job_id) == jobs[JobIdx(job_id)]
\* cron_service.get_next_job_id
get_next_job_id == MaxOf({jobs[i].id : i \in 1..Len(jobs)}) + 1

CronFrame == UNCHANGED <<outVars, rankVars, evalVars, storeVars, applyVars, callVars>>

CronInit == /\ jobs = <<>>
            /\ cronRegs = <<>>
            /\ oneShots = <<>>
            /\ restoreThreads = <<>>
            /\ cronOp = [op |-> "none", ok |-> TRUE, n |-> 0]
            /\ runs = <<>>
            /\ buffer = <<>>
            /\ upload_history = <<>>
            /\ cron_logs = <<>>

OpDone(op, ok) == cronOp' = [op |-> op, ok |-> ok, n |-> cronOp.n + 1]

\* cron_service.create_job
create_job(name, schedule, is_active) ==
    LET job_id == get_next_job_id
        new_job == [id |-> job_id, name |-> name, schedule |-> schedule,
                    is_active |-> is_active, last_run |-> FALSE, next_run |-> None]
        t == from_crontab(schedule, "TIMEZONE")
    IN IF is_active
       THEN IF t.ok
            THEN LET reg == Registration(t.trigger, <<job_id, name, "scheduled">>)
                 IN /\ cronRegs' = AddReg(cronRegs, job_id, reg)
                    /\ jobs' = Append(jobs, [new_job EXCEPT
                                               !.next_run = Some(NextRunTime(reg))])
                    /\ OpDone("create_job", TRUE)
            ELSE /\ OpDone("create_job", FALSE)
                 /\ UNCHANGED <<jobs, cronRegs>>
       ELSE /\ jobs' = Append(jobs, new_job)
            /\ OpDone("create_job", TRUE)
            /\ UNCHANGED cronRegs

CreateJob ==
    /\ Len(jobs) < MaxJobs
    /\ cronOp.n < MaxCronOps
    /\ \E name \in JobNames, schedule \in Schedules, is_active \in BOOLEAN :
          create_job(name, schedule, is_active)
    /\ UNCHANGED <<oneShots, restoreThreads, runs, buffer, upload_history, cron_logs>>
    /\ CronFrame

\* cron_service.update_job; name, schedule, is_active are Optional
update_job(job_id, name, schedule, is_active) ==
    IF ~HasJob(job_id)
    THEN OpDone("update_job", FALSE) /\ UNCHANGED <<jobs, cronRegs>>
    ELSE LET i == JobIdx(job_id)
             job == [jobs[i] EXCEPT
                       !.name = IF name # None THEN name[1] ELSE @,
                       !.schedule = IF schedule # None THEN schedule[1] ELSE @,
                       !.is_active = IF is_active # None THEN is_active[1] ELSE @]
         IN IF ~Registered(job_id)
            \* scheduler.remove_job raises JobLookupError
            THEN OpDone("update_job", FALSE) /\ UNCHANGED <<jobs, cronRegs>>
            ELSE LET removed == RemoveReg(cronRegs, job_id)
                     t == from_crontab(job.schedule, "TIMEZONE")
                 IN IF job.is_active
                    THEN IF t.ok
                         THEN LET reg == Registration(t.trigger,
                                             <<job_id, job.name, "scheduled">>)
                              IN /\ cronRegs' = AddReg(removed, job_id, reg)
                                 /\ jobs' = [jobs EXCEPT ![i] =
                                       [job EXCEPT !.next_run = Some(NextRunTime(reg))]]
                                 /\ OpDone("update_job", TRUE)
                         ELSE /\ cronRegs' = removed
                              /\ OpDone("update_job", FALSE)
                              /\ UNCHANGED jobs
                    ELSE /\ cronRegs' = removed
                         /\ jobs' = [jobs EXCEPT ![i] = [job EXCEPT !.next_run = None]]
                         /\ OpDone("update_job", TRUE)

UpdateJob ==
    /\ cronOp.n < MaxCronOps
    /\ \E job_id \in 1..MaxJobs,
          schedule \in {None} \cup {Some(x) : x \in Schedules},
          is_active \in {None, Some(TRUE), Some(FALSE)} :
          update_job(job_id, None, schedule, is_active)
    /\ UNCHANGED <<oneShots, restoreThreads, runs, buffer, upload_history, cron_logs>>
    /\ CronFrame

\* variant of delete_job that also removes the job's one-shot runs from the
\* scheduler
delete_job_cancelling(job_id) ==
    /\ cronRegs' = IF Registered(job_id) THEN RemoveReg(cronRegs, job_id)
                   ELSE cronRegs
    /\ oneShots' = SelectSeq(oneShots, LAMBDA o : o[1] # job_id)
    /\ jobs' = SelectSeq(jobs, LAMBDA j : j.id # job_id)
    /\ OpDone("delete_job", TRUE)

\* cron_service.delete_job: scheduler.remove_job("cron_job_<id>") in a try
\* that ignores its failure, then the jobs without the job are saved
delete_job(job_id) ==
    /\ cronRegs' = IF Registered(job_id) THEN RemoveReg(cronRegs, job_id)
                   ELSE cronRegs
    /\ oneShots' = oneShots
    /\ jobs' = SelectSeq(jobs, LAMBDA j : j.id # job_id)
    /\ OpDone("delete_job", TRUE)

DeleteJob ==
    /\ cronOp.n < MaxCronOps
    /\ \E job_id \in 1..MaxJobs : delete_job(job_id)
    /\ UNCHANGED <<restoreThreads, runs, buffer, upload_history, cron_logs>>
    /\ CronFrame

\* cron_service.toggle_job
ToggleJob ==
    /\ cronOp.n < MaxCronOps
    /\ \E job_id \in 1..MaxJobs :
          IF ~HasJob(job_id)
          THEN OpDone("toggle_job", FALSE) /\ UNCHANGED <<jobs, cronRegs>>
          ELSE update_job(job_id, None, None, Some(~get_job_by_id(job_id).is_active))
    /\ UNCHANGED <<oneShots, restoreThreads, runs, buffer, upload_history, cron_logs>>
    /\ CronFrame

\* variant of trigger_job_manually that cancels the schedule on every trigger
trigger_job_manually_cancelling(job_id, override) ==
    IF ~HasJob(job_id)
    THEN /\ OpDone("trigger", FALSE)
         /\ UNCHANGED <<jobs, cronRegs, oneShots, restoreThreads>>
    ELSE LET job == get_job_by_id(job_id)
             cancel == job.is_active /\ Registered(job_id)
         IN /\ cronRegs' = IF cancel THEN RemoveReg(cronRegs, job_id) ELSE cronRegs
            /\ restoreThreads' =
                  IF cancel
                  THEN Append(restoreThreads,
                              [job |-> job, state |-> "sleeping",
                               was |-> cronRegs[job_id]])
                  ELSE restoreThreads
            /\ oneShots' = Append(oneShots,
                  <<job_id, job.name, IF override THEN "manual_override" ELSE "manual">>)
            /\ jobs' = [jobs EXCEPT ![JobIdx(job_id)].last_run = TRUE]
            /\ cronOp' = [op |-> IF override THEN "trigger_override" ELSE "trigger",
                          ok |-> TRUE, n |-> cronOp.n + 1]

\* cron_service.trigger_job_manually
trigger_job_manually(job_id, override) ==
    IF ~HasJob(job_id)
    THEN /\ OpDone("trigger", FALSE)
         /\ UNCHANGED <<jobs, cronRegs, oneShots, restoreThreads>>
    ELSE LET job == get_job_by_id(job_id)
             cancel == override /\ job.is_active /\ Registered(job_id)
         IN /\ cronRegs' = IF cancel THEN RemoveReg(cronRegs, job_id) ELSE cronRegs
            /\ restoreThreads' =
                  IF cancel
                  THEN Append(restoreThreads,
                              [job |-> job, state |-> "sleeping",
                               was |-> cronRegs[job_id]])
                  ELSE restoreThreads
            /\ oneShots' = Append(oneShots,
                  <<job_id, job.name, IF override THEN "manual_override" ELSE "manual">>)
            /\ jobs' = [jobs EXCEPT ![JobIdx(job_id)].last_run = TRUE]
            /\ cronOp' = [op |-> IF cancel THEN "trigger_cancel"
                                 ELSE IF override THEN "trigger_override"
                                 ELSE "trigger",
                          ok |-> TRUE, n |-> cronOp.n + 1]

TriggerJob ==
    /\ cronOp.n < MaxCronOps
    /\ Len(oneShots) + Len(runs) < MaxRuns
    /\ \E job_id \in 1..MaxJobs, override \in BOOLEAN :
          trigger_job_manually(job_id, override)
    /\ UNCHANGED <<runs, buffer, upload_history, cron_logs>>
    /\ CronFrame

\* restore_schedule, after time.sleep(10)
RestoreSchedule ==
    /\ \E k \in 1..Len(restoreThreads) :
          LET t == restoreThreads[k]
              kw == parse_cron_schedule(t.job.schedule)
          IN /\ t.state = "sleeping"
             /\ IF t.job.is_active /\ kw.ok
                THEN /\ cronRegs' = AddReg(cronRegs, t.job.id,
                            Registration(kw.trigger,
                                         <<t.job.id, t.job.name, "scheduled">>))
                     /\ restoreThreads' = [restoreThreads EXCEPT ![k].state = "restored"]
                ELSE /\ cronRegs' = cronRegs
                     /\ restoreThreads' = [restoreThreads EXCEPT ![k].state =
                            IF t.job.is_active THEN "failed" ELSE "skipped"]
    /\ UNCHANGED <<jobs, oneShots, cronOp, runs, buffer, upload_history, cron_logs>>
    /\ CronFrame

\* ---- the job handlers statement by statement, for callers that overlap
MaxCalls == 2

CallFrame == UNCHANGED <<outVars, rankVars, evalVars, storeVars, applyVars>>

JobCall(op, pc, local_jobs, job_id, args, ok) ==
    [op |-> op, pc |-> pc, jobs |-> local_jobs, job_id |-> job_id,
     args |-> args, ok |-> ok]

\* create_job, line 257: jobs = get_all_jobs()
CreateJobRead ==
    /\ Len(calls) < MaxCalls
    /\ \E name \in JobNames, schedule \in Schedules, is_active \in BOOLEAN :
          calls' = Append(calls,
                      JobCall("create_job", "id", jobs, 0,
                              [name |-> name, schedule |-> schedule,
                               is_active |-> is_active], TRUE))
    /\ UNCHANGED cronVars
    /\ CallFrame

\* create_job, lines 259-293: job_id = get_next_job_id(), then the
\* registration of an active job; an invalid schedule raises ValueError
CreateJobSchedule ==
    /\ \E k \in 1..Len(calls) :
          LET c == calls[k]
              job_id == get_next_job_id
              t == from_crontab(c.args.schedule, "TIMEZONE")
          IN /\ c.op = "create_job" /\ c.pc = "id"
             /\ IF c.args.is_active /\ ~t.ok
                THEN /\ calls' = [calls EXCEPT ![k].pc = "done", ![k].ok = FALSE,
                                               ![k].job_id = job_id]
                     /\ UNCHANGED cronRegs
                ELSE /\ calls' = [calls EXCEPT ![k].pc = "save", ![k].job_id = job_id]
                     /\ cronRegs' =
                           IF c.args.is_active
                           THEN AddReg(cronRegs, job_id,
                                       Registration(t.trigger,
                                                    <<job_id, c.args.name, "scheduled">>))
                           ELSE cronRegs
    /\ UNCHANGED <<jobs, oneShots, restoreThreads, cronOp, runs, buffer,
                   upload_history, cron_logs>>
    /\ CallFrame

\* create_job, lines 295-296: jobs.append(new_job); save_jobs(jobs)
CreateJobSave ==
    /\ \E k \in 1..Len(calls) :
          LET c == calls[k]
              new_job == [id |-> c.job_id, name |-> c.args.name,
                          schedule |-> c.args.schedule,
                          is_active |-> c.args.is_active, last_run |-> FALSE,
                          next_run |-> IF c.args.is_active
                                       THEN get_next_run_time(c.job_id) ELSE None]
          IN /\ c.op = "create_job" /\ c.pc = "save"
             /\ jobs' = Append(c.jobs, new_job)
             /\ calls' = [calls EXCEPT ![k].pc = "done"]
    /\ UNCHANGED <<cronRegs, oneShots, restoreThreads, cronOp, runs, buffer,
                   upload_history, cron_logs>>
    /\ CallFrame

\* trigger_job_manually(job_id, override = False), lines 388-438: the job is
\* looked up, the one-shot run is added, jobs = get_all_jobs()
TriggerRead ==
    /\ Len(calls) < MaxCalls
    /\ \E job_id \in 1..MaxCalls :
          IF ~HasJob(job_id)
          THEN /\ calls' = Append(calls, JobCall("trigger_job_manually", "done",
                                                 jobs, job_id, <<>>, FALSE))
               /\ UNCHANGED oneShots
          ELSE /\ calls' = Append(calls, JobCall("trigger_job_manually", "save",
                                                 jobs, job_id, <<>>, TRUE))
               /\ oneShots' = Append(oneShots,
                                     <<job_id, get_job_by_id(job_id).name, "manual">>)
    /\ UNCHANGED <<jobs, cronRegs, restoreThreads, cronOp, runs, buffer,
                   upload_history, cron_logs>>
    /\ CallFrame

\* trigger_job_manually, lines 439-443: last_run is set in the list read and
\* the list is saved
TriggerSave ==
    /\ \E k \in 1..Len(calls) :
          LET c == calls[k]
          IN /\ c.op = "trigger_job_manually" /\ c.pc = "save"
             /\ jobs' = [i \in 1..Len(c.jobs) |->
                            IF c.jobs[i].id = c.job_id
                            THEN [c.jobs[i] EXCEPT !.last_run = TRUE]
                            ELSE c.jobs[i]]
             /\ calls' = [calls EXCEPT ![k].pc = "done"]
    /\ UNCHANGED <<cronRegs, oneShots, restoreThreads, cronOp, runs, buffer,
                   upload_history, cron_logs>>
    /\ CallFrame

\* delete_job, lines 354-360: jobs = get_all_jobs(), then the registration
\* is removed
DeleteJobRead ==
    /\ Len(calls) < MaxCalls
    /\ \E job_id \in 1..MaxCalls :
          /\ calls' = Append(calls, JobCall("delete_job", "save", jobs, job_id,
                                            <<>>, TRUE))
          /\ cronRegs' = IF Registered(job_id) THEN RemoveReg(cronRegs, job_id)
                         ELSE cronRegs
    /\ UNCHANGED <<jobs, oneShots, restoreThreads, cronOp, runs, buffer,
                   upload_history, cron_logs>>
    /\ CallFrame

\* delete_job, lines 363-364: the list read, without the job, is saved
DeleteJobSave ==
    /\ \E k \in 1..Len(calls) :
          LET c == calls[k]
          IN /\ c.op = "delete_job" /\ c.pc = "save"
             /\ jobs' = SelectSeq(c.jobs, LAMBDA j : j.id # c.job_id)
             /\ calls' = [calls EXCEPT ![k].pc = "done"]
    /\ UNCHANGED <<cronRegs, oneShots, restoreThreads, cronOp, runs, buffer,
                   upload_history, cron_logs>>
    /\ CallFrame

JobCallsNext ==
    \/ CreateJobRead \/ CreateJobSchedule \/ CreateJobSave
    \/ TriggerRead \/ TriggerSave \/ DeleteJobRead \/ DeleteJobSave

\* ---- manual uploads
\* manual_upload_service.get_next_upload_id
get_next_upload_id ==
    MaxOf({upload_history[i].id : i \in 1..Len(upload_history)}) + 1

\* manual_upload_service.add_to_buffer; parsable is whether the rows of the
\* file later parse to at least one ColorRaw
add_to_buffer(buf, upload_id, parsable) ==
    Append(buf, [id |-> upload_id, parsable |-> parsable, status |-> "pending"])

\* variant of process_manual_upload that buffers the file whatever the
\* validation says
process_manual_upload_unchecked(upload_id, valid, parsable) ==
    [buffer |-> add_to_buffer(buffer, upload_id, parsable),
     history |-> <<[id |-> upload_id,
                    status |-> IF valid THEN "pending" ELSE "failed",
                    error |-> IF valid THEN None ELSE Some("validation")]>>
                 \o upload_history]

\* manual_upload_service.process_manual_upload: the buffer and the history it
\* stores; valid is the outcome of reading and validating the file
process_manual_upload(upload_id, valid, parsable) ==
    IF valid
    THEN [buffer |-> add_to_buffer(buffer, upload_id, parsable),
          history |-> <<[id |-> upload_id, status |-> "pending", error |-> None]>>
                      \o upload_history]
    ELSE [buffer |-> buffer,
          history |-> <<[id |-> upload_id, status |-> "failed",
                         error |-> Some("validation")]>> \o upload_history]

ProcessManualUpload ==
    /\ Len(upload_history) < MaxUploads
    /\ \E valid \in BOOLEAN, parsable \in BOOLEAN :
          LET result == process_manual_upload(get_next_upload_id, valid, parsable)
          IN /\ buffer' = result.buffer
             /\ upload_history' = result.history
    /\ UNCHANGED <<jobs, cronRegs, oneShots, restoreThreads, cronOp, runs, cron_logs>>
    /\ CronFrame

\* the history update loop of process_buffered_file: first entry with the id
SetHistoryStatus(history, upload_id, status, error) ==
    LET hits == {i \in 1..Len(history) : history[i].id = upload_id}
    IN IF hits = {} THEN history
       ELSE LET i == CHOOSE i \in hits : \A j \in hits : i <= j
            IN [history EXCEPT ![i].status = status, ![i].error = error]

\* manual_upload_service.mark_buffer_processed
mark_buffer_processed(upload_id) == SelectSeq(buffer, LAMBDA f : f.id # upload_id)

\* the rows parse_excel_to_colors gives for the file of an upload that parses:
\* the first upload holds a record with a = 1, every later one a record with
\* a = 0
FileRows(upload_id) ==
    <<<<[key |-> <<"a">>,
         val |-> Str(IF upload_id = 1 THEN <<"1">> ELSE <<"0">>)]>>>>

\* what a call of process_buffered_file can come to: "success", "no_rows"
\* (nothing parsed) and "error" (an exception it handles) are results it
\* returns; "raises" is an exception that leaves it, its handler having
\* failed to store the failure
FileOutcomes(buffer_entry) ==
    IF buffer_entry.parsable THEN {"success", "error", "raises"} ELSE {"no_rows"}

\* manual_upload_service.process_buffered_file: the colors parsed from the
\* file go to the ranking engine and to append_processed_colors as they are;
\* rows appended, history, buffer
process_buffered_file(buffer_entry, outcome) ==
    [colors |-> IF outcome = "success" THEN FileRows(buffer_entry.id) ELSE <<>>,
     rows |-> IF outcome = "success" THEN Len(FileRows(buffer_entry.id)) ELSE 0,
     history |-> IF outcome = "raises" THEN upload_history
                 ELSE IF outcome = "success"
                 THEN SetHistoryStatus(upload_history, buffer_entry.id, "success", None)
                 ELSE SetHistoryStatus(upload_history, buffer_entry.id, "failed",
                                       Some(outcome)),
     buffer |-> IF outcome = "raises" THEN buffer
                ELSE mark_buffer_processed(buffer_entry.id)]

\* ---- run_automation_task
NoStage == [fetch |-> "none", write |-> "none", sink |-> "none", email |-> "none"]

NewRun(job_id, triggered_by, reg) ==
    [job_id |-> job_id, triggered_by |-> triggered_by, reg |-> reg,
     pc |-> "start", seen |-> <<>>, buffered_files |-> <<>>, processed |-> <<>>,
     manual_files_processed |-> 0, manual_files_failed |-> 0,
     status |-> "running", error |-> None, email_sent |-> None,
     original_count |-> 0, out |-> NoStage]

\* the scheduler fires cron_job_<id>; max_instances = 1 per registration
FireScheduled ==
    /\ Len(oneShots) + Len(runs) < MaxRuns
    /\ \E job_id \in DOMAIN cronRegs :
          /\ ~\E r \in 1..Len(runs) : runs[r].reg = Some(job_id) /\ runs[r].pc # "done"
          /\ runs' = Append(runs, NewRun(cronRegs[job_id].args[1],
                                         cronRegs[job_id].args[3], Some(job_id)))
    /\ UNCHANGED <<jobs, cronRegs, oneShots, restoreThreads, cronOp, buffer,
                   upload_history, cron_logs>>
    /\ CronFrame

\* the scheduler runs a one-shot manual_trigger job and drops it
StartOneShot ==
    /\ \E k \in 1..Len(oneShots) :
          /\ runs' = Append(runs, NewRun(oneShots[k][1], oneShots[k][3], None))
          /\ oneShots' = SubSeq(oneShots, 1, k - 1) \o SubSeq(oneShots, k + 1, Len(oneShots))
    /\ UNCHANGED <<jobs, cronRegs, restoreThreads, cronOp, buffer,
                   upload_history, cron_logs>>
    /\ CronFrame

\* step 1, first half: buffered_files = get_buffered_files()
RunReadBuffer ==
    /\ \E r \in 1..Len(runs) :
          /\ runs[r].pc = "start"
          /\ runs' = [runs EXCEPT ![r].seen = buffer,
                                  ![r].buffered_files = buffer,
                                  ![r].pc = "files"]
    /\ UNCHANGED <<jobs, cronRegs, oneShots, restoreThreads, cronOp, buffer,
                   upload_history, cron_logs>>
    /\ CronFrame

\* variant of the loop body that leaves the loop at the first failed file
run_buffered_file_abort(run, outcome, colors) ==
    [run EXCEPT
       !.buffered_files = IF outcome = "success" THEN Tail(@) ELSE <<>>,
       !.processed = Append(@, [id |-> Head(run.buffered_files).id,
                                outcome |-> outcome, appended |-> colors]),
       !.manual_files_processed = IF outcome = "success" THEN @ + 1 ELSE @,
       !.manual_files_failed = IF outcome = "success" THEN @ ELSE @ + 1]

\* step 1, loop body: the tally kept around process_buffered_file(buffer_entry);
\* colors are the records the call appended
run_buffered_file(run, outcome, colors) ==
    [run EXCEPT
       !.buffered_files = Tail(@),
       !.processed = Append(@, [id |-> Head(run.buffered_files).id,
                                outcome |-> outcome, appended |-> colors]),
       !.manual_files_processed = IF outcome = "success" THEN @ + 1 ELSE @,
       !.manual_files_failed = IF outcome = "success" THEN @ ELSE @ + 1]

RunProcessBufferedFile ==
    /\ \E r \in 1..Len(runs) :
          /\ runs[r].pc = "files"
          /\ runs[r].buffered_files # <<>>
          /\ LET buffer_entry == Head(runs[r].buffered_files)
             IN \E outcome \in FileOutcomes(buffer_entry) :
                   LET result == process_buffered_file(buffer_entry, outcome)
                   IN /\ IF result.rows > 0
                         THEN AppendRows(result.rows, TRUE, Some(buffer_entry.id))
                         ELSE UNCHANGED outVars
                      /\ upload_history' = result.history
                      /\ buffer' = result.buffer
                      /\ runs' = [runs EXCEPT ![r] =
                                   run_buffered_file(runs[r], outcome, result.colors)]
    /\ UNCHANGED <<jobs, cronRegs, oneShots, restoreThreads, cronOp, cron_logs>>
    /\ UNCHANGED <<rankVars, evalVars, storeVars, applyVars, callVars>>

\* ---- the buffer functions statement by statement: an upload is handled on
\* the server's event loop while a run executes on a scheduler pool thread
BufferCall(op, upload_id, buffered, parsable, r, outcome) ==
    [op |-> op, pc |-> "save", upload_id |-> upload_id, buffered |-> buffered,
     parsable |-> parsable, run |-> r, outcome |-> outcome]

Pending(op) == {k \in 1..Len(calls) : calls[k].op = op /\ calls[k].pc = "save"}

\* process_manual_upload of a valid file up to add_to_buffer, line 91:
\* buffered = get_buffered_files(); the event loop handles one upload at a time
AddToBufferRead ==
    /\ Len(upload_history) < MaxUploads
    /\ Pending("add_to_buffer") = {}
    /\ \E parsable \in BOOLEAN :
          calls' = Append(calls, BufferCall("add_to_buffer", get_next_upload_id,
                                            buffer, parsable, 0, "none"))
    /\ UNCHANGED <<cronVars>>
    /\ CallFrame

\* add_to_buffer, lines 92-93: buffered.append(buffer_entry);
\* save_buffered_files(buffered); then process_manual_upload stores the
\* history entry
AddToBufferSave ==
    /\ \E k \in Pending("add_to_buffer") :
          LET c == calls[k]
          IN /\ buffer' = add_to_buffer(c.buffered, c.upload_id, c.parsable)
             /\ upload_history' = <<[id |-> c.upload_id, status |-> "pending",
                                     error |-> None]>> \o upload_history
             /\ calls' = [calls EXCEPT ![k].pc = "done"]
    /\ UNCHANGED <<jobs, cronRegs, oneShots, restoreThreads, cronOp, runs, cron_logs>>
    /\ CallFrame

\* the loop body up to mark_buffer_processed, line 102: the file is
\* processed, the history entry updated, buffered = get_buffered_files();
\* an exception that leaves process_buffered_file skips the call
MarkBufferRead ==
    /\ \E r \in 1..Len(runs) :
          /\ runs[r].pc = "files"
          /\ runs[r].buffered_files # <<>>
          /\ ~\E k \in Pending("mark_buffer_processed") : calls[k].run = r
          /\ LET buffer_entry == Head(runs[r].buffered_files)
             IN \E outcome \in FileOutcomes(buffer_entry) :
                   LET result == process_buffered_file(buffer_entry, outcome)
                   IN /\ IF result.rows > 0
                         THEN AppendRows(result.rows, TRUE, Some(buffer_entry.id))
                         ELSE UNCHANGED outVars
                      /\ upload_history' = result.history
                      /\ IF outcome = "raises"
                         THEN /\ runs' = [runs EXCEPT ![r] =
                                   run_buffered_file(runs[r], outcome, result.colors)]
                              /\ UNCHANGED calls
                         ELSE /\ calls' = Append(calls,
                                     BufferCall("mark_buffer_processed", buffer_entry.id,
                                                buffer, buffer_entry.parsable, r, outcome))
                              /\ UNCHANGED runs
    /\ UNCHANGED <<jobs, cronRegs, oneShots, restoreThreads, cronOp, buffer, cron_logs>>
    /\ UNCHANGED <<rankVars, evalVars, storeVars, applyVars>>

\* mark_buffer_processed, lines 103-104: the list read, without the entry,
\* is saved; the loop goes on
MarkBufferSave ==
    /\ \E k \in Pending("mark_buffer_processed") :
          LET c == calls[k]
          IN /\ buffer' = SelectSeq(c.buffered, LAMBDA f : f.id # c.upload_id)
             /\ runs' = [runs EXCEPT ![c.run] =
                          run_buffered_file(runs[c.run], c.outcome,
                                            process_buffered_file(
                                                Head(runs[c.run].buffered_files),
                                                c.outcome).colors)]
             /\ calls' = SubSeq(calls, 1, k - 1) \o SubSeq(calls, k + 1, Len(calls))
    /\ UNCHANGED <<jobs, cronRegs, oneShots, restoreThreads, cronOp,
                   upload_history, cron_logs>>
    /\ CallFrame

\* what steps 2-6 can come to: fetch is db_service.fetch_all_colors ("ok" or
\* "raises"), n the number of rows it returns, write the to_excel of the
\* output file ("ok" or "raises"), sink the status the configured destination
\* reports ("success" or "error"), email the report ("sent", "not_sent" when
\* send_report_email reports no success, "raises").  Stages not reached are "none";
\* with no rows append_processed_colors returns before it writes.
PipelineOutcomes ==
    {o \in [fetch : {"ok", "raises"}, n : FetchCounts, write : {"ok", "raises", "none"},
            sink : {"success", "error", "none"},
            email : {"sent", "not_sent", "raises", "none"}] :
        \/ /\ o.fetch = "raises" /\ o.n = 0
           /\ o.write = "none" /\ o.sink = "none" /\ o.email = "none"
        \/ /\ o.fetch = "ok" /\ o.n = 0
           /\ o.write = "none" /\ o.sink = "none" /\ o.email # "none"
        \/ /\ o.fetch = "ok" /\ o.n > 0
           /\ o.write = "raises" /\ o.sink = "none" /\ o.email = "none"
        \/ /\ o.fetch = "ok" /\ o.n > 0
           /\ o.write = "ok" /\ o.sink # "none" /\ o.email # "none"}

StagesOf(o) == [fetch |-> o.fetch, write |-> o.write, sink |-> o.sink,
                email |-> o.email]

\* variant of steps 2-6 that takes a failed fetch for an empty result
run_pipeline_fetch_ignored(run, o) ==
    IF o.fetch = "ok" /\ o.write = "raises"
    THEN [run EXCEPT !.pc = "log", !.status = "failed", !.error = Some("write"),
                     !.original_count = o.n, !.out = StagesOf(o)]
    ELSE [run EXCEPT !.pc = "log", !.status = "success",
                     !.original_count = o.n,
                     !.email_sent = Some(o.email = "sent"),
                     !.out = StagesOf(o)]

\* variant of steps 2-6 in which a failed report fails the run
run_pipeline_email_fatal(run, o) ==
    IF o.fetch = "raises"
    THEN [run EXCEPT !.pc = "log", !.status = "failed", !.error = Some("fetch"),
                     !.out = StagesOf(o)]
    ELSE IF o.write = "raises"
    THEN [run EXCEPT !.pc = "log", !.status = "failed", !.error = Some("write"),
                     !.original_count = o.n, !.out = StagesOf(o)]
    ELSE IF o.email = "raises"
    THEN [run EXCEPT !.pc = "log", !.status = "failed", !.error = Some("email"),
                     !.original_count = o.n, !.out = StagesOf(o)]
    ELSE [run EXCEPT !.pc = "log", !.status = "success",
                     !.original_count = o.n,
                     !.email_sent = Some(o.email = "sent"),
                     !.out = StagesOf(o)]

\* steps 2-6 of run_automation_task on the run's log_entry: an exception of
\* the fetch or of the output file write reaches the outer except branch;
\* _save_to_destinations logs what the destination reports and returns; the
\* report is sent inside its own try
run_pipeline(run, o) ==
    IF o.fetch = "raises"
    THEN [run EXCEPT !.pc = "log", !.status = "failed", !.error = Some("fetch"),
                     !.out = StagesOf(o)]
    ELSE IF o.write = "raises"
    THEN [run EXCEPT !.pc = "log", !.status = "failed", !.error = Some("write"),
                     !.original_count = o.n, !.out = StagesOf(o)]
    ELSE [run EXCEPT !.pc = "log", !.status = "success",
                     !.original_count = o.n,
                     !.email_sent = Some(o.email = "sent"),
                     !.out = StagesOf(o)]

\* steps 2-6: fetch, rules, ranking, append, email report, with the outcome
\* drawn from outcomes
RunPipelineOn(outcomes) ==
    /\ \E r \in 1..Len(runs) :
          /\ runs[r].pc = "files"
          /\ runs[r].buffered_files = <<>>
          /\ \E o \in outcomes :
                /\ runs' = [runs EXCEPT ![r] = run_pipeline(runs[r], o)]
                /\ IF o.fetch = "ok" /\ o.write # "raises"
                   THEN AppendRows(o.n, TRUE, None)
                   ELSE UNCHANGED outVars
    /\ UNCHANGED <<jobs, cronRegs, oneShots, restoreThreads, cronOp, buffer,
                   upload_history, cron_logs>>
    /\ UNCHANGED <<rankVars, evalVars, storeVars, applyVars, callVars>>

RunPipeline == RunPipelineOn(PipelineOutcomes)

\* the fetch fails, or every stage succeeds
PlainOutcomes ==
    {o \in PipelineOutcomes :
        o.fetch = "raises" \/ (o.n > 0 /\ o.sink = "success" /\ o.email = "sent")}

RunPipelinePlain == RunPipelineOn(PlainOutcomes)

\* variant of save_execution_log that stores the entry as it was created
save_execution_log_running(logs, log_entry) ==
    LET id == IF logs # <<>> THEN MaxOf({logs[i].id : i \in 1..Len(logs)}) + 1 ELSE 1
        inserted == <<[log_entry EXCEPT !.id = id, !.status = "running"]>> \o logs
    IN SubSeq(inserted, 1, IF Len(inserted) > MaxExecutionLogs
                           THEN MaxExecutionLogs ELSE Len(inserted))

\* cron_service.save_execution_log
save_execution_log(logs, log_entry) ==
    LET id == IF logs # <<>> THEN MaxOf({logs[i].id : i \in 1..Len(logs)}) + 1 ELSE 1
        inserted == <<[log_entry EXCEPT !.id = id]>> \o logs
    IN SubSeq(inserted, 1, IF Len(inserted) > MaxExecutionLogs
                           THEN MaxExecutionLogs ELSE Len(inserted))

\* the log_entry dict of run r; start_time is the run's place in start order
LogEntryOf(r) ==
    [id |-> 0, job_id |-> runs[r].job_id,
     triggered_by |-> runs[r].triggered_by,
     start_time |-> r,
     status |-> runs[r].status,
     error |-> runs[r].error,
     email_sent |-> runs[r].email_sent,
     manual_files_processed |-> runs[r].manual_files_processed,
     manual_files_failed |-> runs[r].manual_files_failed]

RunSaveLog ==
    /\ \E r \in 1..Len(runs) :
          /\ runs[r].pc = "log"
          /\ cron_logs' = save_execution_log(cron_logs, LogEntryOf(r))
          /\ runs' = [runs EXCEPT ![r].pc = "done"]
    /\ UNCHANGED <<jobs, cronRegs, oneShots, restoreThreads, cronOp, buffer,
                   upload_history>>
    /\ CronFrame

CronNext ==
    \/ CreateJob \/ UpdateJob \/ DeleteJob \/ ToggleJob \/ TriggerJob
    \/ RestoreSchedule \/ ProcessManualUpload
    \/ FireScheduled \/ StartOneShot
    \/ RunReadBuffer \/ RunProcessBufferedFile \/ RunPipeline \/ RunSaveLog

(***************************************************************************)
(* Specifications: each one runs one component, the others stay idle       *)
(***************************************************************************)
CallIdle == calls = <<>>

RankIdle == raw_colors = <<>> /\ rankResult = <<>> /\ rankPc = "idle"

EvalIdle == evRow = <<>> /\ evRule = [conditions |-> <<>>] /\ evResult = None
            /\ evPc = "idle"

StoreIdle == StoreInit
ApplyIdle == applyData = <<>> /\ applyIds = None /\ rules_to_apply = <<>>
             /\ applyResult = None /\ applyPc = "idle"

InitOutput == OutInit /\ RankIdle /\ EvalIdle /\ StoreIdle /\ ApplyIdle /\ CronInit /\ CallIdle
InitRank   == RankInit /\ OutInit /\ EvalIdle /\ StoreIdle /\ ApplyIdle /\ CronInit /\ CallIdle
InitEval   == EvalInit /\ OutInit /\ RankIdle /\ StoreIdle /\ ApplyIdle /\ CronInit /\ CallIdle
InitCond   == CondInit /\ OutInit /\ RankIdle /\ StoreIdle /\ ApplyIdle /\ CronInit /\ CallIdle
InitJson   == JsonInit /\ OutInit /\ RankIdle /\ EvalIdle /\ StoreIdle /\ ApplyIdle /\ CronInit
InitApply  == ApplyInit /\ OutInit /\ RankIdle /\ EvalIdle /\ CronInit /\ CallIdle
InitRules  == StoreInit /\ OutInit /\ RankIdle /\ EvalIdle /\ ApplyIdle /\ CronInit /\ CallIdle
Init       == CronInit /\ OutInit /\ RankIdle /\ EvalIdle /\ StoreIdle /\ ApplyIdle /\ CallIdle
Next       == CronNext

\* the job registry and the manual triggers, no run started
TriggerNext ==
    \/ CreateJob \/ UpdateJob \/ DeleteJob \/ ToggleJob \/ TriggerJob
    \/ RestoreSchedule

\* the state after n calls of create_job("daily", "0 9 * * *", is_active = TRUE)
JobsCreated(n) ==
    /\ LET t == from_crontab("0 9 * * *", "TIMEZONE")
           reg(job_id) == Registration(t.trigger, <<job_id, "daily", "scheduled">>)
           job(job_id) == [id |-> job_id, name |-> "daily", schedule |-> "0 9 * * *",
                           is_active |-> TRUE, last_run |-> FALSE,
                           next_run |-> Some(NextRunTime(reg(job_id)))]
       IN /\ jobs = [job_id \in 1..n |-> job(job_id)]
          /\ cronRegs = [job_id \in 1..n |-> reg(job_id)]
    /\ oneShots = <<>>
    /\ restoreThreads = <<>>
    /\ cronOp = [op |-> "create_job", ok |-> TRUE, n |-> n]
    /\ runs = <<>>
    /\ buffer = <<>>
    /\ upload_history = <<>>
    /\ cron_logs = <<>>

InitJobs(n) ==
    /\ OutInit /\ RankIdle /\ EvalIdle /\ StoreIdle /\ ApplyIdle /\ CallIdle
    /\ JobsCreated(n)

\* two registered jobs, whose runs can overlap
InitRun == InitJobs(2)

\* one registered job, whose runs follow one another (max_instances = 1)
InitBatch == InitJobs(1)

\* one registered job, and the rule store after
\* create_rule("r", [where a equal to 1], is_active = TRUE)
InitBatchRules ==
    /\ OutInit /\ RankIdle /\ EvalIdle /\ ApplyIdle /\ CallIdle
    /\ JobsCreated(1)
    /\ LET created == create_rule(Store(<<>>, <<>>, 1), <<"r">>,
                                  <<Cond(<<"a">>, "equal to", <<"1">>)>>, TRUE)
       IN /\ rules = created.st.rules
          /\ unified_logs = created.st.logs
          /\ next_id = created.st.next_id
          /\ lastOp = [op |-> "create", ok |-> TRUE, before |-> <<>>]

\* uploads and scheduled runs, every outcome of every stage
RunNext ==
    \/ ProcessManualUpload \/ FireScheduled
    \/ RunReadBuffer \/ RunProcessBufferedFile \/ RunPipeline \/ RunSaveLog

\* uploads and scheduled runs, the stages after the buffer plain
BatchNext ==
    \/ ProcessManualUpload \/ FireScheduled
    \/ RunReadBuffer \/ RunProcessBufferedFile \/ RunPipelinePlain \/ RunSaveLog

\* the admin calls next to scheduled and one-shot runs, the buffer empty
AdminNext ==
    \/ DeleteJob \/ ToggleJob \/ TriggerJob
    \/ RestoreSchedule \/ FireScheduled \/ StartOneShot
    \/ RunReadBuffer \/ RunPipelinePlain \/ RunSaveLog

\* uploads and scheduled runs on their own threads
BufferCallsNext ==
    \/ AddToBufferRead \/ AddToBufferSave \/ FireScheduled \/ RunReadBuffer
    \/ MarkBufferRead \/ MarkBufferSave \/ RunPipelinePlain \/ RunSaveLog

\* scheduled runs with an empty buffer, every outcome of every stage
PipelineNext ==
    \/ FireScheduled \/ RunReadBuffer \/ RunPipeline \/ RunSaveLog

SpecOutput == InitOutput /\ [][OutNext]_vars
SpecRank   == InitRank /\ [][RankNext]_vars
SpecEval   == InitEval /\ [][EvalNext]_vars
SpecCond   == InitCond /\ [][CondNext]_vars
SpecJson   == InitJson /\ [][JsonNext]_vars
SpecApply  == InitApply /\ [][ApplyNext]_vars
SpecRules  == InitRules /\ [][StoreNext]_vars
SpecRevert == InitRules /\ [][RevertNext]_vars
Spec       == Init /\ [][Next]_vars
SpecTrigger == Init /\ [][TriggerNext]_vars
SpecJobCalls == Init /\ [][JobCallsNext]_vars
SpecBufferCalls == InitBatch /\ [][BufferCallsNext]_vars
SpecRun    == InitRun /\ [][RunNext]_vars
SpecBatch  == InitBatch /\ [][BatchNext]_vars
SpecBatchRules == InitBatchRules /\ [][BatchNext]_vars
SpecPipeline == InitRun /\ [][PipelineNext]_vars
\* every started run_automation_task keeps running on its pool thread
SpecBatchLive ==
    /\ InitBatch /\ [][BatchNext]_vars
    /\ WF_vars(RunReadBuffer) /\ WF_vars(RunProcessBufferedFile)
    /\ WF_vars(RunPipelinePlain) /\ WF_vars(RunSaveLog)
\* the scheduler starts every one-shot run it holds, and every started
\* run_automation_task keeps running on its pool thread
SpecAdminLive ==
    /\ InitBatch /\ [][AdminNext]_vars
    /\ WF_vars(StartOneShot) /\ WF_vars(RunReadBuffer)
    /\ WF_vars(RunPipelinePlain) /\ WF_vars(RunSaveLog)

(***************************************************************************)
(* Properties of the output accumulator                                    *)
(***************************************************************************)
LastAppend == appendLog[Len(appendLog)]
AllRowsTail(n) == [i \in 1..n |-> nextRow - n + i - 1]

\* appends i..Len(appendLog) started from 149 stored rows and added 11 rows
From149Plus11(i) ==
    /\ Len(appendLog[i].before) = 149
    /\ SumSeq([k \in 1..(Len(appendLog) - i + 1) |-> Len(appendLog[i + k - 1].new)]) = 11

\* C3 (as stated): with 149 rows stored, appending batches of 11 records in
\* total leaves exactly 150 stored rows, the 150 most recently appended.
C3_Original ==
    \A i \in 1..Len(appendLog) :
        From149Plus11(i) => /\ Len(stored) = 150
                            /\ stored = AllRowsTail(150)

\* C3 (amended): with 149 readable rows stored, appending batches of 11
\* records in total leaves R_keep + (size of the last non-empty batch) rows
\* (111 for one batch of 11), and they are the most recently appended rows.
C3_Retention ==
    \A i \in 1..Len(appendLog) :
        (/\ From149Plus11(i)
         /\ \A k \in i..Len(appendLog) : appendLog[k].readOk)
        => LET nz == {k \in i..Len(appendLog) : appendLog[k].new # <<>>}
               last == CHOOSE k \in nz : \A m \in nz : m <= k
           IN /\ Len(stored) = R_keep + Len(appendLog[last].new)
              /\ stored = AllRowsTail(Len(stored))

C3_Witness ==
    /\ appendLog # <<>>
    /\ Len(LastAppend.before) = 149
    /\ Len(LastAppend.new) = 11
    /\ LastAppend.readOk
    /\ Len(stored) = 111

C3_WitnessSplit ==
    /\ Len(appendLog) >= 2
    /\ Len(appendLog[Len(appendLog) - 1].before) = 149
    /\ Len(appendLog[Len(appendLog) - 1].new) = 5
    /\ Len(LastAppend.new) = 6
    /\ Len(stored) = 106

\* C4: right after every non-empty append the stored row count is at most
\* R_max and the stored rows are a suffix of (previously stored rows followed
\* by the newly appended rows).
C4_BoundedSuffix ==
    (appendLog # <<>> /\ LastAppend.new # <<>>)
    => /\ Len(stored) <= R_max
       /\ IsSuffix(stored, LastAppend.before \o LastAppend.new)

C4_Witness ==
    /\ appendLog # <<>>
    /\ Len(LastAppend.before) > R_keep
    /\ Len(LastAppend.before) + Len(LastAppend.new) > R_max
    /\ LastAppend.readOk
    /\ Len(stored) = R_max

(***************************************************************************)
(* Properties of the ranking engine                                        *)
(***************************************************************************)
RawOf(p) == ColorRaw(p.message_id, p.cusip, p.date, p.rank, p.px)
GroupIdx(c) == {i \in 1..Len(rankResult) : rankResult[i].cusip = c}
GroupSize(c) == Cardinality({i \in 1..Len(raw_colors) : raw_colors[i].cusip = c})

\* C5: the output holds every input record exactly once; in every cusip group
\* exactly one record is the parent (children_count = group size - 1, no
\* parent id) and every other record is a child of it with children_count 0.
C5_Hierarchy ==
    rankPc = "done" =>
      /\ Len(rankResult) = Len(raw_colors)
      /\ \A i \in 1..Len(raw_colors) :
            Cardinality({j \in 1..Len(rankResult) :
                            RawOf(rankResult[j]) = raw_colors[i]}) = 1
      /\ \A c \in Cusips :
            GroupSize(c) > 0 =>
              \E p \in GroupIdx(c) :
                 /\ rankResult[p].is_parent
                 /\ rankResult[p].children_count = GroupSize(c) - 1
                 /\ rankResult[p].parent_message_id = None
                 /\ \A q \in GroupIdx(c) \ {p} :
                       /\ ~rankResult[q].is_parent
                       /\ rankResult[q].children_count = 0
                       /\ rankResult[q].parent_message_id = Some(rankResult[p].message_id)

C5_Witness ==
    /\ rankPc = "done"
    /\ \E c, d \in Cusips : GroupSize(c) >= 2 /\ GroupSize(d) = 1
    /\ \E i \in 1..Len(rankResult) : rankResult[i].children_count >= 1

\* the precedence of the ranking: most recent date, then lowest rank, then
\* lowest price, then input order
Precedes(a, b) ==
    \/ a.date > b.date
    \/ a.date = b.date /\ a.rank < b.rank
    \/ a.date = b.date /\ a.rank = b.rank /\ a.px < b.px
    \/ a.date = b.date /\ a.rank = b.rank /\ a.px = b.px
       /\ a.message_id < b.message_id

\* C6: in every group the parent is the record that comes first under the
\* precedence most recent date, lowest rank, lowest price (for all prices),
\* input order on full ties.
C6_ParentPrecedence ==
    rankPc = "done" =>
      \A p \in 1..Len(rankResult) :
         rankResult[p].is_parent =>
            \A q \in GroupIdx(rankResult[p].cusip) \ {p} :
               Precedes(rankResult[p], rankResult[q])

(***************************************************************************)
(* Properties of the rule engine                                           *)
(***************************************************************************)
EvConds == evRule.conditions
EvTypesOf == [i \in 1..Len(EvConds) |-> EvConds[i].type]
EvMatch(i) == evaluate_condition(evRow, EvConds[i])

ApplyRes == applyResult[1]

\* the stored rules a call should apply, by position in the store
ShouldApply(i) == IF applyIds = None THEN rules[i].is_active
                  ELSE rules[i].id \in applyIds[1]
AppliedIdx == {i \in 1..Len(rules) : ShouldApply(i)}
RowMatched(row) == \E i \in AppliedIdx : evaluate_rule(row, rules[i])

\* C8: a row is excluded iff at least one applied rule matches it, every
\* excluded row is counted once, excluded_count + len(filtered_data) =
\* original_count, and filtered_data is the input without the excluded rows,
\* in input order.
C8_ExcludeOnce ==
    applyPc = "done" =>
      /\ ApplyRes.filtered_data = SelectSeq(applyData, LAMBDA row : ~RowMatched(row))
      /\ ApplyRes.excluded_count =
            Cardinality({i \in 1..Len(applyData) : RowMatched(applyData[i])})
      /\ ApplyRes.original_count = Len(applyData)
      /\ ApplyRes.excluded_count + Len(ApplyRes.filtered_data) = ApplyRes.original_count

\* a row matched by two applied rules is counted once
C8_Witness ==
    /\ applyPc = "done"
    /\ \E i \in 1..Len(applyData) :
          Cardinality({k \in AppliedIdx : evaluate_rule(applyData[i], rules[k])}) >= 2
    /\ ApplyRes.excluded_count = 1
    /\ Len(ApplyRes.filtered_data) = 1

\* C9: without an id list exactly the stored rules with is_active = true are
\* applied, with an id list exactly the stored rules whose id is listed,
\* active or not; rules_applied is the number of rules applied.
C9_RuleSelection ==
    applyPc = "done" =>
      /\ Len(rules_to_apply) = Cardinality(AppliedIdx)
      /\ \A i \in 1..Len(rules) :
            ShouldApply(i) <=> (\E k \in 1..Len(rules_to_apply) :
                                   rules_to_apply[k] = rules[i])
      /\ ApplyRes.rules_applied = Cardinality(AppliedIdx)

\* an explicit list names an inactive rule, which is applied and excludes a row
C9_Witness ==
    /\ applyPc = "done"
    /\ applyIds # None
    /\ \E i \in AppliedIdx : ~rules[i].is_active
    /\ \E i \in 1..Len(rules) : rules[i].is_active /\ ~ShouldApply(i)
    /\ ApplyRes.rules_applied = 1
    /\ ApplyRes.excluded_count >= 1

(***************************************************************************)
(* Properties of the rule store                                            *)
(***************************************************************************)
\* C10: no two stored rules have names that are equal ignoring case.
C10_UniqueNames ==
    \A i, j \in 1..Len(rules) :
        i # j => ToLower(rules[i].name) # ToLower(rules[j].name)

\* C11: create_rule with a name equal, ignoring case, to the name of an
\* existing rule is rejected, and a rejected create leaves the rule store and
\* the audit log unchanged: every create step either is rejected and changes
\* nothing, or appends one rule whose name differs, ignoring case, from every
\* name stored before, with one audit entry.
C11_DuplicateRejected ==
    [][lastOp'.op = "create" =>
         IF lastOp'.ok
         THEN /\ Len(rules') = Len(rules) + 1
              /\ SubSeq(rules', 1, Len(rules)) = rules
              /\ \A i \in 1..Len(rules) :
                    ToLower(rules[i].name) # ToLower(rules'[Len(rules')].name)
              /\ Len(unified_logs') = Len(unified_logs) + 1
         ELSE /\ rules' = rules
              /\ unified_logs' = unified_logs
              /\ next_id' = next_id]_vars

\* a create was rejected while a rule is stored
C11_Witness ==
    /\ lastOp.op = "create"
    /\ ~lastOp.ok
    /\ Len(rules) >= 1

\* the rules as a set of (id, name, is_active, conditions) records
RuleSet(rs) == {rs[i] : i \in 1..Len(rs)}

\* C12: directly after a successful create_rule, update_rule or delete_rule,
\* apply_revert on the audit entry just written succeeds and yields the set
\* of rules (id, name, is_active, conditions) stored before the operation.
C12_RevertRestores ==
    (lastOp.op \in {"create", "update", "delete"} /\ lastOp.ok) =>
        /\ unified_logs # <<>>
        /\ unified_logs[1].action = lastOp.op
        /\ LET reverted == apply_revert(CurStore, unified_logs[1].log_id)
           IN /\ reverted.ok
              /\ RuleSet(reverted.st.rules) = RuleSet(lastOp.before)

\* a delete has just been reverted: the newest entry is the revert, the one
\* before it the reverted delete, and the rule is stored again
C12_Witness ==
    /\ lastOp.op = "revert"
    /\ lastOp.ok
    /\ Len(unified_logs) >= 2
    /\ unified_logs[1].action = "revert"
    /\ unified_logs[2].action = "delete"
    /\ unified_logs[2].reverted_at
    /\ HasRule(rules, unified_logs[2].entity_id)

(***************************************************************************)
(* Properties of the cron orchestrator                                     *)
(***************************************************************************)
\* the registration a fresh create_job of this job's schedule produces
FreshNextRun(job) ==
    Some(NextRunTime(Registration(from_crontab(job.schedule, "TIMEZONE").trigger,
                                  <<job.id, job.name, "scheduled">>)))

\* C1: an override trigger on an active, registered job removes the
\* registration cron_job_<id> at once, and once the restore action has
\* finished get_next_run_time(id) is the non-null next-run time of a fresh
\* registration of the job's cron expression.
C1_OverrideRestore ==
    /\ cronOp.op = "trigger_cancel" =>
          ~Registered(restoreThreads[Len(restoreThreads)].job.id)
    /\ \A k \in 1..Len(restoreThreads) :
          LET t == restoreThreads[k]
          IN (/\ t.state # "sleeping"
              /\ HasJob(t.job.id)
              /\ get_job_by_id(t.job.id) = [t.job EXCEPT !.last_run = TRUE])
             => /\ get_next_run_time(t.job.id) # None
                /\ get_next_run_time(t.job.id) = FreshNextRun(t.job)

\* C2: each buffered upload is appended to the output store at most once,
\* whatever the interleaving of runs.
C2_AtMostOnce ==
    \A i \in 1..Len(upload_history) :
        Cardinality({k \in 1..Len(appendLog) :
                        appendLog[k].src = Some(upload_history[i].id)}) <= 1

\* the history entry of an upload
HistoryOf(upload_id) ==
    upload_history[CHOOSE i \in 1..Len(upload_history) :
                      upload_history[i].id = upload_id]

InBuffer(upload_id) == \E i \in 1..Len(buffer) : buffer[i].id = upload_id

\* C13: an upload that fails validation leaves the buffer unchanged; an
\* upload step only appends its own entry to the buffer, never removing or
\* altering an entry already there; an entry leaves the buffer only in a
\* step of a run of the orchestrator.
C13_UploadOnlyAppends ==
    [][/\ Len(upload_history') > Len(upload_history) =>
            IF upload_history'[1].status = "failed"
            THEN buffer' = buffer
            ELSE /\ Len(buffer') = Len(buffer) + 1
                 /\ SubSeq(buffer', 1, Len(buffer)) = buffer
                 /\ buffer'[Len(buffer')].id = upload_history'[1].id
       /\ (\E i \in 1..Len(buffer) :
              ~\E k \in 1..Len(buffer') : buffer'[k] = buffer[i])
            => /\ runs' # runs
               /\ upload_history' # upload_history
               /\ Len(upload_history') = Len(upload_history)]_vars

\* C13 witness: the latest upload failed validation while an earlier upload
\* waits in the buffer.
C13_Witness ==
    /\ upload_history # <<>>
    /\ upload_history[1].error = Some("validation")
    /\ buffer # <<>>

\* C14: once a run has had a buffered upload fail (a failure result or an
\* exception), the upload's history entry is failed with an error string,
\* the upload is out of the buffer, and no later run processes it.
C14_FailedNotRetried ==
    \A r \in 1..Len(runs) : \A k \in 1..Len(runs[r].processed) :
        LET p == runs[r].processed[k]
        IN p.outcome # "success" =>
              /\ HistoryOf(p.id).status = "failed"
              /\ HistoryOf(p.id).error # None
              /\ ~InBuffer(p.id)
              /\ \A r2 \in (r + 1)..Len(runs) :
                    \A k2 \in 1..Len(runs[r2].processed) :
                        runs[r2].processed[k2].id # p.id

\* C15: a run that has left the buffer loop has processed every batch it saw
\* at its start, in order, whatever failed; its tallies add up to the number
\* of batches seen; the fetch stage was entered afterwards; and the
\* execution log entry of the run carries these tallies.
C15_BatchFailureIsolated ==
    /\ \A r \in 1..Len(runs) :
          runs[r].pc \in {"log", "done"} =>
             /\ [k \in 1..Len(runs[r].processed) |-> runs[r].processed[k].id]
                  = [k \in 1..Len(runs[r].seen) |-> runs[r].seen[k].id]
             /\ runs[r].manual_files_processed + runs[r].manual_files_failed
                  = Len(runs[r].seen)
             /\ runs[r].out.fetch # "none"
    /\ \A i \in 1..Len(cron_logs) :
          cron_logs[i].manual_files_processed + cron_logs[i].manual_files_failed
             = Len(runs[cron_logs[i].start_time].seen)

\* C15 witness: a logged run whose first batch raised and whose second batch
\* was processed, with rows fetched and appended afterwards.
C15_Witness ==
    \E r \in 1..Len(runs) :
        /\ runs[r].pc = "done"
        /\ Len(runs[r].processed) >= 2
        /\ runs[r].processed[1].outcome = "raises"
        /\ runs[r].processed[2].outcome = "success"
        /\ runs[r].manual_files_failed = 1
        /\ runs[r].out.fetch = "ok"
        /\ \E i \in 1..Len(cron_logs) : cron_logs[i].start_time = r

\* the execution log entries written by run r
LogsOf(r) == {i \in 1..Len(cron_logs) : cron_logs[i].start_time = r}

\* run r takes the step named: steps 2-6, or the save of its log entry
PipelineStep(r) == runs[r].pc = "files" /\ runs'[r].pc = "log"
SaveLogStep(r) == runs[r].pc = "log" /\ runs'[r].pc = "done"

C17_FetchFailure ==
    [][\A r \in 1..Len(runs) :
          /\ (PipelineStep(r) /\ runs'[r].out.fetch = "raises") =>
                /\ UNCHANGED <<stored, nextRow, appendLog>>
                /\ runs'[r].status = "failed"
                /\ runs'[r].error = Some("fetch")
                /\ UNCHANGED <<jobs, cronRegs>>
          /\ (SaveLogStep(r) /\ runs[r].out.fetch = "raises") =>
                /\ cron_logs'[1].start_time = r
                /\ cron_logs'[1].status = "failed"
                /\ cron_logs'[1].error = Some("fetch")
                /\ UNCHANGED <<stored, jobs, cronRegs>>
                /\ Registered(runs[r].job_id)]_vars

\* C17 witness: a run whose fetch raised is logged, and its job is still
\* registered.
C17_Witness ==
    \E r \in 1..Len(runs) :
        /\ runs[r].pc = "done"
        /\ runs[r].out.fetch = "raises"
        /\ LogsOf(r) # {}
        /\ Registered(runs[r].job_id)

\* C18: a run in which the configured destination reported an error is
\* failed and carries the error message.
C18_SinkFailureFails ==
    \A r \in 1..Len(runs) :
        runs[r].out.sink = "error" =>
            /\ runs[r].status = "failed"
            /\ runs[r].error # None

\* C19: when the report is not sent or sending it raises, the run is a
\* success with email_sent false and the rows it fetched are the last rows
\* of the output; the entry then logged says the same and the output is
\* unchanged.
C19_EmailFailure ==
    [][\A r \in 1..Len(runs) :
          /\ (PipelineStep(r) /\ runs'[r].out.email \in {"not_sent", "raises"}) =>
                /\ runs'[r].status = "success"
                /\ runs'[r].email_sent = Some(FALSE)
                /\ LET n == runs'[r].original_count
                   IN /\ Len(stored') >= n
                      /\ Tail_n(stored', n) = [i \in 1..n |-> nextRow + i - 1]
          /\ (SaveLogStep(r) /\ runs[r].out.email \in {"not_sent", "raises"}) =>
                /\ cron_logs'[1].start_time = r
                /\ cron_logs'[1].status = "success"
                /\ cron_logs'[1].email_sent = Some(FALSE)
                /\ stored' = stored]_vars

\* C19 witness: a run that appended a row and whose report raised is logged
\* as a success.
C19_Witness ==
    \E r \in 1..Len(runs) :
        /\ runs[r].pc = "done"
        /\ runs[r].out.email = "raises"
        /\ runs[r].original_count > 0
        /\ stored # <<>>
        /\ \E i \in LogsOf(r) : cron_logs[i].status = "success"

\* C20: a manual trigger without override of an existing job leaves the
\* registrations (and so every next-run time) and the restore threads
\* unchanged, enqueues exactly one one-shot run of that job with provenance
\* manual, and changes nothing in the job records but that job's last_run.
C20_ManualTriggerFrame ==
    [][(cronOp' # cronOp /\ cronOp'.op = "trigger" /\ cronOp'.ok) =>
          /\ cronRegs' = cronRegs
          /\ restoreThreads' = restoreThreads
          /\ Len(oneShots') = Len(oneShots) + 1
          /\ SubSeq(oneShots', 1, Len(oneShots)) = oneShots
          /\ LET shot == oneShots'[Len(oneShots')]
             IN /\ shot[3] = "manual"
                /\ HasJob(shot[1])
                /\ Len(jobs') = Len(jobs)
                /\ \A i \in 1..Len(jobs) :
                      jobs'[i] = IF jobs[i].id = shot[1]
                                 THEN [jobs[i] EXCEPT !.last_run = TRUE]
                                 ELSE jobs[i]]_vars

\* C20 witness: a manual trigger without override has just been accepted
\* for an active job, which is still registered.
C20_Witness ==
    /\ cronOp.op = "trigger" /\ cronOp.ok
    /\ oneShots # <<>>
    /\ oneShots[Len(oneShots)][3] = "manual"
    /\ Registered(oneShots[Len(oneShots)][1])
    /\ get_job_by_id(oneShots[Len(oneShots)][1]).last_run

\* C21: no record appended for a buffered batch matches an active exclusion
\* rule: what a run appends for a batch has passed apply_rules.
C21_BufferedBatchFiltered ==
    \A r \in 1..Len(runs) : \A k \in 1..Len(runs[r].processed) :
        LET appended == runs[r].processed[k].appended
        IN \A i \in 1..Len(appended) :
              FirstMatch(appended[i], select_rules(rules, None), 1) = 0

\* the calls of a handler that have returned without raising
Returned(op) == {k \in 1..Len(calls) : calls[k].op = op /\ calls[k].pc = "done"
                                        /\ calls[k].ok}

C23_UploadNotLost ==
    \A k \in 1..Len(calls) :
        (calls[k].op = "add_to_buffer" /\ calls[k].pc = "done") =>
            \/ \E i \in 1..Len(buffer) : buffer[i].id = calls[k].upload_id
            \/ \E r \in 1..Len(runs) : \E i \in 1..Len(runs[r].seen) :
                  runs[r].seen[i].id = calls[k].upload_id

\* C24: a schedule that is not a valid cron expression is never persisted:
\* create_job and update_job reject it, for an active and for an inactive
\* job, so every stored job has a valid schedule.
C24_InvalidScheduleRejected ==
    \A i \in 1..Len(jobs) : from_crontab(jobs[i].schedule, "TIMEZONE").ok

\* C25: with no override restore ever started, after every call a
\* registration cron_job_<id> exists exactly when job <id> is stored with
\* is_active = TRUE, and a toggle_job call on a stored job flips is_active.
C25_RegisteredIffActive ==
    [][restoreThreads' = <<>> =>
         /\ \A job_id \in 1..MaxJobs :
               (job_id \in DOMAIN cronRegs') <=>
                   \E i \in 1..Len(jobs') :
                       jobs'[i].id = job_id /\ jobs'[i].is_active
         /\ (ToggleJob /\ \A job_id \in 1..MaxJobs : HasJob(job_id)) =>
               \E i \in 1..Len(jobs) :
                   /\ Len(jobs') = Len(jobs)
                   /\ jobs'[i].is_active = ~jobs[i].is_active]_vars

\* the runs that are over with their execution log entry written
RunsLogged == {r \in 1..Len(runs) : runs[r].pc = "done" /\ Cardinality(LogsOf(r)) = 1}

\* C26: a step of an admin call (toggle, delete, trigger with or without override)
\* or of an override restore leaves every run as it is and every enqueued
\* one-shot run in the scheduler; and again and again every run started or
\* enqueued so far is over with its log entry written.
C26_RunsNotCancelled ==
    /\ [][(cronOp'.n # cronOp.n \/ restoreThreads' # restoreThreads) =>
             /\ runs' = runs
             /\ Len(oneShots') >= Len(oneShots)
             /\ SubSeq(oneShots', 1, Len(oneShots)) = oneShots]_vars
    /\ []<>(Cardinality(RunsLogged) = Len(runs) + Len(oneShots))

\* C26 witness: a one-shot override run is in flight, its job deleted and its
\* registration removed by the last admin call.
C26_Witness ==
    \E r \in 1..Len(runs) :
        /\ runs[r].pc = "files"
        /\ runs[r].triggered_by = "manual_override"
        /\ ~HasJob(runs[r].job_id)
        /\ ~Registered(runs[r].job_id)
        /\ cronOp.op = "delete_job"

\* the condition evaluated and the spellings of its operator
TheCondition == evRule.conditions[1]
SpellingsOf(operator) ==
    IF operator.t # "str" THEN {}
    ELSE UNION {g \in OperatorSpellings : operator.name \in g}

\* C27: whatever spelling of its operator a condition uses, every other
\* spelling of that operator gives the result it gave, on the same row,
\* column and values.
C27_SpellingsAgree ==
    evPc = "done" =>
        \A name \in SpellingsOf(TheCondition.operator) :
            LET other == evaluate_condition_call(
                             evRow, [TheCondition EXCEPT !.operator = OpName(name)])
            IN ~other.raised /\ other.result = evResult[1]

\* C27 witness: a condition spelled 'EQUALS' matched a row.
C27_Witness ==
    /\ evPc = "done"
    /\ TheCondition.operator = OpName("EQUALS")
    /\ evResult = Some(TRUE)

\* the number (scaled by 100) that a value of the inputs stands for, if any
NumberOf(v) ==
    CASE v = Str(<<"9",".","9","9">>)     -> Some(999)
      [] v = Str(<<"1","0">>)             -> Some(1000)
      [] v = Num(10)                      -> Some(1000)
      [] v = Str(<<"1","5">>)             -> Some(1500)
      [] v = Num(15)                      -> Some(1500)
      [] v = Str(<<"2","0">>)             -> Some(2000)
      [] v = Num(20)                      -> Some(2000)
      [] v = Str(<<"2","0",".","0","1">>) -> Some(2001)
      [] OTHER                            -> None

\* the value the row holds for column 'a', if it has that column
RowNumber ==
    IF evRow # <<>> /\ evRow[1].key = <<"A">> /\ TheCondition.column = Str(<<"a">>)
    THEN NumberOf(evRow[1].val) ELSE None

\* C28: a between condition is true exactly when the row value, value and
\* value2 are numbers and value <= row value <= value2; with any of them
\* missing or not a number it is false, and it does not raise.
C28_BetweenInclusive ==
    (evPc # "input" /\ TheCondition.operator \in {OpName("between"), OpName("Between"),
                                                   OpName("BETWEEN")}
                    /\ TheCondition.column \in {Str(<<"a">>), Absent}) =>
        LET x  == RowNumber
            lo == NumberOf(TheCondition.value)
            hi == NumberOf(TheCondition.value2)
        IN /\ evPc = "done"
           /\ evResult[1] <=> (/\ x # None /\ lo # None /\ hi # None
                               /\ lo[1] <= x[1] /\ x[1] <= hi[1])

\* C28 witness: the row value 20 is between 10 and 20.
C28_Witness ==
    /\ evPc = "done"
    /\ TheCondition.operator = OpName("between")
    /\ evRow = <<[key |-> <<"A">>, val |-> Str(<<"2","0">>)]>>
    /\ TheCondition.value = Str(<<"1","0">>)
    /\ TheCondition.value2 = Num(20)
    /\ evResult = Some(TRUE)

\* C29: evaluate_condition raises for no row and no condition.
C29_NeverRaises == evPc # "raised"

\* C30: the rules load_rules returns after save_rules are the rules saved.
C30_RoundTrip ==
    calls[1].pc = "loaded" => calls[1].loaded = Some(calls[1].rules)

\* C30 witness: a rule whose three conditions hold a string, a float and an
\* integer value, the between condition with an integer value2, came back
\* as it was saved.
C30_Witness ==
    /\ calls[1].pc = "loaded"
    /\ calls[1].loaded = Some(calls[1].rules)
    /\ LET c == calls[1].rules[1].conditions
       IN /\ c[1].value = Str(<<"1","5">>)
          /\ c[2].value = Float(1500) /\ c[2].value2 = Num(10)
          /\ c[3].value = Num(0)

\* C31: an apply_revert that fails leaves the audit log as it was: the entry
\* is not marked reverted and no 'revert' entry is added.
C31_FailedRevertKeepsLog ==
    [][(lastOp'.op = "revert" /\ ~lastOp'.ok) =>
         /\ unified_logs' = unified_logs
         /\ next_id' = next_id]_vars

\* C32: a registration cron_job_<id> exists only for a job that is stored
\* with is_active = TRUE: none for a deleted job, none for a deactivated
\* one, whatever restore is pending or has run.
C32_NoRegistrationAfterDelete ==
    \A job_id \in DOMAIN cronRegs :
        HasJob(job_id) /\ get_job_by_id(job_id).is_active

\* C32 witness: the restore of an override has run for a job that was
\* deleted meanwhile, and the job has no registration.
C32_Witness ==
    \E k \in 1..Len(restoreThreads) :
        /\ restoreThreads[k].state = "failed"
        /\ ~HasJob(restoreThreads[k].job.id)
        /\ ~Registered(restoreThreads[k].job.id)
        /\ cronOp.op = "delete_job"

\* C33: apply_revert on the audit entry of a delete_rule leaves every rule
\* stored at that time as it is (the deleted rule is none of them), and the
\* ids of the stored rules are pairwise distinct.
C33_RevertDeleteFrame ==
    /\ \A i, j \in 1..Len(rules) : i # j => rules[i].id # rules[j].id
    /\ \A k \in 1..Len(unified_logs) :
          (unified_logs[k].action = "delete" /\ ~unified_logs[k].reverted_at) =>
              LET reverted == apply_revert(CurStore, unified_logs[k].log_id)
              IN \A i \in 1..Len(rules) :
                    \E j \in 1..Len(reverted.st.rules) :
                        reverted.st.rules[j] = rules[i]

\* the audit entries of a kind
EntriesWhere(P(_)) == {k \in 1..Len(unified_logs) : P(unified_logs[k])}
IsRevertEntry(e) == e.action = "revert"
IsReverted(e) == e.reverted_at

\* C36: apply_revert on a log id that is unknown, or whose entry has
\* can_revert = FALSE or is already reverted, is rejected and leaves the
\* rule store and the audit log as they are; so only entries with
\* can_revert are ever marked reverted, each by one 'revert' entry.
C36_RevertedAtMostOnce ==
    /\ \A log_id \in 1..(MaxLogId + 2) :
          LET hits == {k \in 1..Len(unified_logs) : unified_logs[k].log_id = log_id}
          IN (\/ hits = {}
              \/ \E k \in hits : \/ ~unified_logs[k].can_revert
                                  \/ unified_logs[k].reverted_at) =>
                 apply_revert(CurStore, log_id) = [ok |-> FALSE, st |-> CurStore]
    /\ \A k \in EntriesWhere(IsReverted) :
          unified_logs[k].can_revert /\ unified_logs[k].action # "revert"
    /\ Cardinality(EntriesWhere(IsRevertEntry)) = Cardinality(EntriesWhere(IsReverted))

\* C36 witness: the create of a rule was reverted (entries: the delete the
\* revert made, the 'revert' entry, the create marked reverted), and an
\* apply_revert called in that state was rejected.
C36_Witness ==
    /\ lastOp.op = "revert"
    /\ ~lastOp.ok
    /\ Len(unified_logs) = 3
    /\ unified_logs[1].action = "delete"
    /\ unified_logs[2].action = "revert"
    /\ unified_logs[3].action = "create" /\ unified_logs[3].reverted_at

(***************************************************************************)
(* Manual colour session (services/manual_color_service.py).  The session  *)
(* file is the one record of calls; a row of the session is the colour     *)
(* record with its row_id.                                                 *)
(***************************************************************************)
SessionRow(c, idx) ==
    [row_id |-> idx, message_id |-> c.message_id, cusip |-> c.cusip,
     date |-> c.date, rank |-> c.rank, px |-> c.px, is_parent |-> c.is_parent,
     parent_message_id |-> c.parent_message_id,
     children_count |-> c.children_count]

\* the row as the rule engine reads it: the dict keys the stored rules test
RowDict(row) ==
    <<[key |-> <<"c","u","s","i","p">>, val |-> Str(<<row.cusip>>)],
      [key |-> <<"r","a","n","k">>, val |-> Num(row.rank * 100)]>>

\* rules of the session specification: exclude cusip A, exclude rank 2
SessionRules ==
    <<StoredRule(1, TRUE, <<Cond(<<"c","u","s","i","p">>, "equal to", <<"A">>)>>),
      StoredRule(2, FALSE, <<Cond(<<"r","a","n","k">>, "equal to", <<"2">>)>>)>>

ManualColorSession(sorted_data, filtered_data, deleted_rows, applied_rules,
                   status, saved) ==
    [op |-> "manual_session", sorted_data |-> sorted_data,
     filtered_data |-> filtered_data, deleted_rows |-> deleted_rows,
     applied_rules |-> applied_rules, status |-> status, saved |-> saved]

\* the colours of an uploaded file: at most MaxSessionRows parsed rows
MaxSessionRows == 3
SessionRecords(i) == {ColorRaw(i, c, 1, r, 0) : c \in Cusips, r \in Ranks}
SessionFiles ==
    UNION {{f \in [1..n -> UNION {SessionRecords(i) : i \in 1..n}] :
               \A i \in 1..n : f[i].message_id = i} : n \in 1..MaxSessionRows}

\* import_manual_colors: sort the parsed colours, create the session
ImportManualColors ==
    /\ rankPc = "input"
    /\ raw_colors # <<>>
    /\ LET sorted_colors == run_colors(raw_colors)
           sorted_data_dict == [idx \in 1..Len(sorted_colors) |->
                                   SessionRow(sorted_colors[idx], idx - 1)]
       IN /\ rankResult' = sorted_colors
          /\ calls' = <<ManualColorSession(sorted_data_dict, sorted_data_dict,
                                           <<>>, {}, "preview", None)>>
    /\ rankPc' = "done"
    /\ UNCHANGED <<raw_colors>>
    /\ UNCHANGED <<outVars, evalVars, storeVars, applyVars, cronVars>>

\* the ids in the list row_ids
RowIdsOf(row_ids) == {row_ids[k] : k \in 1..Len(row_ids)}

\* lists of row ids a caller sends
RowIdLists ==
    {<<a>> : a \in 0..(MaxSessionRows - 1)}
      \cup {<<a, b>> : a \in 0..(MaxSessionRows - 1), b \in 0..(MaxSessionRows - 1)}

\* delete_rows(session_id, row_ids)
delete_rows(session, row_ids) ==
    [session EXCEPT
        !.filtered_data = SelectSeq(session.filtered_data,
                                    LAMBDA row : row.row_id \notin RowIdsOf(row_ids)),
        !.deleted_rows = session.deleted_rows \o row_ids]

DeleteRows ==
    /\ calls # <<>>
    /\ calls[1].status = "preview"
    /\ \E row_ids \in RowIdLists :
          /\ Len(calls[1].deleted_rows) + Len(row_ids) <= MaxSessionRows
          /\ calls' = <<delete_rows(calls[1], row_ids)>>
    /\ UNCHANGED <<outVars, rankVars, evalVars, storeVars, applyVars, cronVars>>

\* apply_selected_rules(session_id, rule_ids); the rows the rule engine
\* keeps are the rows whose dict it keeps
apply_selected_rules(session, all_rules, rule_ids) ==
    LET current_data == session.filtered_data
        rs == select_rules(all_rules, Some(rule_ids))
        filtered_data ==
            IF rs = <<>> THEN current_data
            ELSE SelectSeq(current_data,
                     LAMBDA row : FirstMatch(RowDict(row), rs, 1) = 0)
    IN IF current_data = <<>>
       THEN [success |-> FALSE, session |-> session]
       ELSE [success |-> TRUE,
             session |-> [session EXCEPT
                 !.filtered_data = filtered_data,
                 !.applied_rules = session.applied_rules \cup rule_ids]]

ApplySelectedRules ==
    /\ calls # <<>>
    /\ calls[1].status = "preview"
    /\ \E rule_ids \in SUBSET {1, 2} :
          /\ rule_ids # {}
          /\ ~(rule_ids \subseteq calls[1].applied_rules)
          /\ calls' = <<apply_selected_rules(calls[1], rules, rule_ids).session>>
    /\ UNCHANGED <<outVars, rankVars, evalVars, storeVars, applyVars, cronVars>>

\* save_manual_colors(session_id): the rows of filtered_data, as they are,
\* go to append_processed_colors
SaveManualColors ==
    /\ calls # <<>>
    /\ calls[1].status = "preview"
    /\ Len(appendLog) < MaxAppends
    /\ LET final_data == calls[1].filtered_data
       IN IF final_data = <<>>
          THEN /\ calls' = <<[calls[1] EXCEPT !.status = "no data"]>>
               /\ UNCHANGED outVars
          ELSE /\ \E readOk \in BOOLEAN :
                     AppendRows(Len(final_data), readOk, "manual")
               /\ calls' = <<[calls[1] EXCEPT !.status = "saved",
                                              !.saved = Some(final_data)]>>
    /\ UNCHANGED <<rankVars, evalVars, storeVars, applyVars, cronVars>>

SessionNext == ImportManualColors \/ DeleteRows \/ ApplySelectedRules
                 \/ SaveManualColors

InitSession ==
    /\ raw_colors \in SessionFiles
    /\ rankResult = <<>>
    /\ rankPc = "input"
    /\ OutInit /\ EvalIdle /\ ApplyIdle /\ CronInit /\ CallIdle
    /\ rules = SessionRules
    /\ unified_logs = <<>>
    /\ next_id = 1
    /\ lastOp = [op |-> "none", ok |-> TRUE, before |-> <<>>]

SpecSession == InitSession /\ [][SessionNext]_vars

\* the hierarchy invariant of a batch of processed colours
HierarchyHolds(batch) ==
    \A k \in 1..Len(batch) :
        IF batch[k].is_parent
        THEN batch[k].children_count =
                Cardinality({j \in 1..Len(batch) :
                    /\ ~batch[j].is_parent
                    /\ batch[j].parent_message_id = Some(batch[k].message_id)})
        ELSE \E j \in 1..Len(batch) :
                /\ batch[j].is_parent
                /\ batch[k].parent_message_id = Some(batch[j].message_id)

\* C34: every batch save_manual_colors appends satisfies the hierarchy
\* invariant, whatever rows delete_rows and apply_selected_rules removed
\* before: each non-parent row has its parent in the batch and each parent's
\* children_count is the number of its children in the batch
C34_SavedBatchHierarchy ==
    (calls # <<>> /\ calls[1].saved # None) => HierarchyHolds(calls[1].saved[1])

(***************************************************************************)
(* save_execution_log statement by statement: runs of different jobs       *)
(* execute on different scheduler pool threads                             *)
(***************************************************************************)
\* save_execution_log, line 93: logs = get_execution_logs()
SaveLogRead ==
    /\ \E r \in 1..Len(runs) :
          /\ runs[r].pc = "log"
          /\ ~\E k \in Pending("save_execution_log") : calls[k].run = r
          /\ calls' = Append(calls, [op |-> "save_execution_log", pc |-> "save",
                                     run |-> r, logs |-> cron_logs])
    /\ UNCHANGED cronVars
    /\ UNCHANGED <<outVars, rankVars, evalVars, storeVars, applyVars>>

\* save_execution_log, lines 95-109: the id from the list read, the entry
\* inserted into it, the list cut to 100 and saved
SaveLogWrite ==
    /\ \E k \in Pending("save_execution_log") :
          LET c == calls[k]
          IN /\ cron_logs' = save_execution_log(c.logs, LogEntryOf(c.run))
             /\ runs' = [runs EXCEPT ![c.run].pc = "done"]
             /\ calls' = SubSeq(calls, 1, k - 1) \o SubSeq(calls, k + 1, Len(calls))
    /\ UNCHANGED <<jobs, cronRegs, oneShots, restoreThreads, cronOp, buffer,
                   upload_history>>
    /\ UNCHANGED <<outVars, rankVars, evalVars, storeVars, applyVars>>

LogCallsNext ==
    \/ FireScheduled \/ RunReadBuffer \/ RunPipelinePlain
    \/ SaveLogRead \/ SaveLogWrite

SpecLogCalls == InitRun /\ [][LogCallsNext]_vars

\* C35: for every interleaving of runs, overlapping ones included, the
\* execution log holds the entry of every completed run (fewer than 100 newer
\* entries exist here), holds at most 100 entries, most recent first, and the
\* ids of its entries are pairwise distinct.
C35_LogKeepsCompletedRuns ==
    /\ \A r \in 1..Len(runs) : runs[r].pc = "done" => LogsOf(r) # {}
    /\ Len(cron_logs) <= MaxExecutionLogs
    /\ \A i, j \in 1..Len(cron_logs) : i < j => cron_logs[i].id > cron_logs[j].id

(***************************************************************************)
(* The upload history next to uploads and runs                             *)
(***************************************************************************)
\* manual_upload_service.delete_upload_history: the stored history without
\* the upload; the buffer is not read
delete_upload_history(upload_id) ==
    IF \E i \in 1..Len(upload_history) : upload_history[i].id = upload_id
    THEN [ok |-> TRUE,
          history |-> SelectSeq(upload_history, LAMBDA u : u.id # upload_id)]
    ELSE [ok |-> FALSE, history |-> upload_history]

DeleteUploadHistory ==
    /\ Len(buffer) < MaxUploads
    /\ \E upload_id \in 1..MaxUploads :
          LET result == delete_upload_history(upload_id)
          IN /\ result.ok
             /\ upload_history' = result.history
    /\ UNCHANGED <<jobs, cronRegs, oneShots, restoreThreads, cronOp, runs, buffer,
                   cron_logs>>
    /\ CronFrame

\* uploads, deletions from the history and the buffer loop of the runs
UploadsNext ==
    \/ ProcessManualUpload \/ DeleteUploadHistory \/ FireScheduled
    \/ RunReadBuffer \/ RunProcessBufferedFile

SpecUploads == InitBatch /\ [][UploadsNext]_vars

\* C37: upload ids are unique through process_manual_upload,
\* delete_upload_history and runs: no two buffer entries share an id and no
\* two history entries share an id.
C37_UploadIdsUnique ==
    /\ \A i, j \in 1..Len(buffer) : i # j => buffer[i].id # buffer[j].id
    /\ \A i, j \in 1..Len(upload_history) :
          i # j => upload_history[i].id # upload_history[j].id

(***************************************************************************)
(* evaluate_rule on conditions whose type is any stored string, or missing  *)
(***************************************************************************)
TypeSpellings == {"where", "and", "or", "AND", ""}
TypedColumns == {<<"a">>, <<"b">>}

\* a condition dict without the key 'type'
UntypedCondition(column, operator, value, value2) ==
    [column |-> column, operator |-> operator, value |-> value, value2 |-> value2]

TypedConditions ==
    {Condition(t, c, "equal to", Str(<<"1">>), NoneVal) :
        t \in TypeSpellings, c \in TypedColumns}
      \cup {UntypedCondition(c, "equal to", Str(<<"1">>), NoneVal) : c \in TypedColumns}

TypedInit == /\ evRow \in EvRows
             /\ evRule \in {[conditions |-> cs] :
                               cs \in UNION {[1..n -> TypedConditions] :
                                                n \in 1..MaxConditions}}
             /\ evResult = None
             /\ evPc = "input"

InitTyped == TypedInit /\ OutInit /\ RankIdle /\ StoreIdle /\ ApplyIdle /\ CronInit /\ CallIdle

SpecTyped == InitTyped /\ [][EvalNext]_vars

\* the condition is one the loop folds in when it is not the first
Contributes(condition) ==
    "type" \notin DOMAIN condition \/ condition.type \in {"where", "and", "or"}

\* C38: the first condition initialises the result whatever its type; a later
\* condition contributes only when its type is exactly 'where', 'and' or
\* 'or' in lower case ('where' being the default of a missing type); a later
\* condition of any other type leaves the accumulated result unchanged.
C38_OnlyExactTypesContribute ==
    evPc = "done" =>
      /\ Len(EvConds) = 1 => evResult = Some(EvMatch(1))
      /\ (\A i \in 2..Len(EvConds) : ~Contributes(EvConds[i]))
            => evResult = Some(EvMatch(1))
      /\ evResult = Some(evaluate_rule(evRow,
             [conditions |-> <<EvConds[1]>> \o SelectSeq(Tail(EvConds), Contributes)]))

\* the first condition, of type 'AND', matches; the second, of type 'AND',
\* and the third, of type '', do not
C38_Witness ==
    /\ evPc = "done"
    /\ Len(EvConds) = 3
    /\ \A i \in 1..3 : "type" \in DOMAIN EvConds[i]
    /\ EvConds[1].type = "AND" /\ EvConds[2].type = "AND" /\ EvConds[3].type = ""
    /\ EvMatch(1) /\ ~EvMatch(2) /\ ~EvMatch(3)
    /\ evResult = Some(TRUE)

(***************************************************************************)
(* Backup and restore (backup_service.py).  The files and stored lists of   *)
(* the service are the one record of calls: output is the content of       *)
(* OUTPUT_FILE (None when the file does not exist), files the backup files  *)
(* as pairs <<backup id, content>>, history the list "backup_history",      *)
(* activity the actions of the list "activity_logs", most recent first.     *)
(***************************************************************************)
MaxBackupId == 3
MaxActivity == 4
\* contents of the output file; Partial is a file a failed copy left incomplete
Contents == {"v1", "v2"}
Partial == "incomplete"

BackupState(output, history, files, activity, last) ==
    [op |-> "backup_service", output |-> output, history |-> history,
     files |-> files, activity |-> activity, last |-> last]

get_next_backup_id(history) ==
    IF history = <<>> THEN 1
    ELSE MaxOf({history[i].id : i \in 1..Len(history)}) + 1

BackupEntry(id, backup_type, status, checksum) ==
    [id |-> id, backup_type |-> backup_type, status |-> status, checksum |-> checksum]

\* log_activity(action, ...)
log_activity(activity, action) == <<action>> \o activity

\* create_backup(backup_type); copy_ok is whether shutil.copy2 succeeds
create_backup(st, backup_type, copy_ok) ==
    LET backup_id == get_next_backup_id(st.history)
        failed  == BackupEntry(backup_id, backup_type, "failed", None)
        success == BackupEntry(backup_id, backup_type, "success", st.output)
    IN IF st.output = None \/ ~copy_ok
       THEN [entry |-> failed,
             st |-> [st EXCEPT !.history = <<failed>> \o st.history]]
       ELSE [entry |-> success,
             st |-> [st EXCEPT !.files = st.files \cup {<<backup_id, st.output[1]>>},
                               !.history = <<success>> \o st.history,
                               !.activity = log_activity(st.activity, "backup_created")]]

\* the first history entry with the id, as the for loop finds it
FindBackup(history, backup_id) ==
    LET hits == {i \in 1..Len(history) : history[i].id = backup_id}
    IN IF hits = {} THEN None
       ELSE Some(history[CHOOSE i \in hits : \A j \in hits : i <= j])

FileOf(files, backup_id) == {f \in files : f[1] = backup_id}

RestoreFailed(st) ==
    [success |-> FALSE, pre_restore_backup_id |-> None,
     st |-> [st EXCEPT !.activity = log_activity(st.activity, "restore_failed")]]

\* variant of restore_from_backup that does not look at the status of the
\* pre-restore backup
restore_from_backup_unchecked(st, backup_id, copy_ok, restore) ==
    LET backup == FindBackup(st.history, backup_id)
    IN IF backup = None THEN RestoreFailed(st)
       ELSE IF backup[1].status # "success" THEN RestoreFailed(st)
       ELSE IF FileOf(st.files, backup_id) = {} THEN RestoreFailed(st)
       ELSE LET pre_restore_backup == create_backup(st, "pre-restore", copy_ok)
                content == (CHOOSE f \in FileOf(st.files, backup_id) : TRUE)[2]
            IN IF restore = "raises"
               THEN RestoreFailed(pre_restore_backup.st)
               ELSE IF restore = "partial"
               THEN RestoreFailed([pre_restore_backup.st EXCEPT !.output = Some(Partial)])
               ELSE [success |-> TRUE,
                     pre_restore_backup_id |-> Some(pre_restore_backup.entry.id),
                     st |-> [pre_restore_backup.st EXCEPT
                               !.output = Some(content),
                               !.activity = log_activity(@, "restore_completed")]]

\* restore_from_backup(backup_id); copy_ok is whether the copy of the
\* pre-restore backup succeeds, restore what shutil.copy2 onto OUTPUT_FILE
\* comes to: "ok", "raises" before it writes, "partial" when it raises after
\* it began to write
restore_from_backup(st, backup_id, copy_ok, restore) ==
    LET backup == FindBackup(st.history, backup_id)
    IN IF backup = None THEN RestoreFailed(st)
       ELSE IF backup[1].status # "success" THEN RestoreFailed(st)
       ELSE IF FileOf(st.files, backup_id) = {} THEN RestoreFailed(st)
       ELSE LET pre_restore_backup == create_backup(st, "pre-restore", copy_ok)
                content == (CHOOSE f \in FileOf(st.files, backup_id) : TRUE)[2]
            IN IF pre_restore_backup.entry.status # "success"
               THEN RestoreFailed(pre_restore_backup.st)
               ELSE IF restore = "raises"
               THEN RestoreFailed(pre_restore_backup.st)
               ELSE IF restore = "partial"
               THEN RestoreFailed([pre_restore_backup.st EXCEPT !.output = Some(Partial)])
               ELSE [success |-> TRUE,
                     pre_restore_backup_id |-> Some(pre_restore_backup.entry.id),
                     st |-> [pre_restore_backup.st EXCEPT
                               !.output = Some(content),
                               !.activity = log_activity(@, "restore_completed")]]

\* delete_backup(backup_id)
delete_backup(st, backup_id) ==
    IF FindBackup(st.history, backup_id) = None THEN st
    ELSE [st EXCEPT !.files = st.files \ FileOf(st.files, backup_id),
                    !.history = SelectSeq(st.history, LAMBDA b : b.id # backup_id),
                    !.activity = log_activity(st.activity, "backup_deleted")]

NoBackupOp == [op |-> "none"]

BackupInit == calls = <<BackupState(None, <<>>, {}, <<>>, NoBackupOp)>>

BackupFrame == UNCHANGED <<outVars, rankVars, evalVars, storeVars, applyVars, cronVars>>

\* the pipeline writes the output file, or the file is removed
WriteOutput ==
    /\ \E output \in {None} \cup {Some(c) : c \in Contents} :
          /\ output # calls[1].output
          /\ calls' = <<[calls[1] EXCEPT !.output = output, !.last = NoBackupOp]>>
    /\ BackupFrame

CreateBackup ==
    /\ get_next_backup_id(calls[1].history) <= MaxBackupId
    /\ Len(calls[1].activity) < MaxActivity
    /\ \E copy_ok \in BOOLEAN :
          calls' = <<[create_backup(calls[1], "manual", copy_ok).st
                         EXCEPT !.last = NoBackupOp]>>
    /\ BackupFrame

DeleteBackup ==
    /\ Len(calls[1].activity) < MaxActivity
    /\ \E backup_id \in 1..MaxBackupId :
          /\ FindBackup(calls[1].history, backup_id) # None
          /\ calls' = <<[delete_backup(calls[1], backup_id) EXCEPT !.last = NoBackupOp]>>
    /\ BackupFrame

\* a backup file disappears from the backup directory
LoseBackupFile ==
    /\ \E f \in calls[1].files :
          calls' = <<[calls[1] EXCEPT !.files = @ \ {f}, !.last = NoBackupOp]>>
    /\ BackupFrame

RestoreFromBackup ==
    /\ get_next_backup_id(calls[1].history) <= MaxBackupId
    /\ Len(calls[1].activity) < MaxActivity
    /\ \E backup_id \in 1..(MaxBackupId + 1), copy_ok \in BOOLEAN,
          restore \in {"ok", "raises", "partial"} :
          LET result == restore_from_backup(calls[1], backup_id, copy_ok, restore)
          IN calls' = <<[result.st EXCEPT !.last =
                 [op |-> "restore_from_backup", backup_id |-> backup_id,
                  copy_ok |-> copy_ok, success |-> result.success,
                  pre_restore_backup_id |-> result.pre_restore_backup_id,
                  output |-> calls[1].output, history |-> calls[1].history,
                  files |-> calls[1].files]]>>
    /\ BackupFrame

BackupNext == WriteOutput \/ CreateBackup \/ DeleteBackup \/ LoseBackupFile
                \/ RestoreFromBackup

InitBackup ==
    /\ BackupInit /\ OutInit /\ RankIdle /\ EvalIdle /\ StoreIdle /\ ApplyIdle
    /\ CronInit

SpecBackup == InitBackup /\ [][BackupNext]_vars

\* the last call was restore_from_backup
Restored == calls[1].last.op = "restore_from_backup"

\* the pre-restore backup the last restore created: a successful entry of
\* type pre-restore, newest in the history, whose file holds the output file
\* as it was before the restore
PreRestoreMade ==
    /\ calls[1].history # <<>>
    /\ Len(calls[1].history) = Len(calls[1].last.history) + 1
    /\ calls[1].history[1].backup_type = "pre-restore"
    /\ calls[1].history[1].status = "success"
    /\ calls[1].last.output # None
    /\ <<calls[1].history[1].id, calls[1].last.output[1]>> \in calls[1].files

\* the cases in which the restore has nothing to restore from, or cannot
\* make the pre-restore backup
RestoreRefused ==
    LET last == calls[1].last
        backup == FindBackup(last.history, last.backup_id)
    IN \/ backup = None
       \/ backup[1].status # "success"
       \/ FileOf(last.files, last.backup_id) = {}
       \/ last.output = None
       \/ ~last.copy_ok

\* C39: restore_from_backup never overwrites the output file unless a
\* pre-restore backup was created first; for an unknown backup id, a failed
\* backup, a missing backup file or a failed pre-restore backup the output
\* file is unchanged and the result reports failure.
C39_RestoreNeedsPreRestoreBackup ==
    Restored =>
      /\ calls[1].output # calls[1].last.output => PreRestoreMade
      /\ RestoreRefused => (/\ calls[1].output = calls[1].last.output
                            /\ ~calls[1].last.success)
      /\ calls[1].last.success => PreRestoreMade

\* a restore is refused because the copy of the pre-restore backup fails,
\* for a backup that could be restored and differs from the output file
C39_Witness ==
    /\ Restored
    /\ ~calls[1].last.success
    /\ ~calls[1].last.copy_ok
    /\ calls[1].last.output # None
    /\ \E f \in FileOf(calls[1].last.files, calls[1].last.backup_id) :
          /\ Some(f[2]) # calls[1].last.output
          /\ FindBackup(calls[1].last.history, calls[1].last.backup_id)[1].status = "success"
    /\ calls[1].history[1].status = "failed"
    /\ calls[1].output = calls[1].last.output

====
